---- MODULE Spec2Model ----
(***************************************************************************)
(* A model of the MEMZ memory engine (memz-core, memz-veloren).            *)
(*                                                                         *)
(* Numeric conventions.  The code works with f32/f64 values; the model     *)
(* keeps them as scaled integers:                                          *)
(*   - valence, importance, trust, sentiment: hundredths ("centi"),        *)
(*     e.g. emotional_valence 0.8 is 80;                                   *)
(*   - thresholds and retention: thousandths ("milli"), e.g. decay_rate    *)
(*     0.05 is 50;                                                         *)
(*   - ticks are plain naturals (u64 in the code; kept below 2^31 here).   *)
(* Retention R is carried as ceil(1000 * R): for a threshold T that is a   *)
(* whole number of thousandths, R > T/1000 iff ceil(1000*R) > T, so the    *)
(* strict comparison of the code is preserved, including R = 1.0 exactly   *)
(* (zero elapsed time) and R = 0.0 exactly (zero strength, or f64          *)
(* underflow of exp for very large elapsed time).                          *)
(***************************************************************************)
EXTENDS Integers, Sequences, FiniteSets, TLC

VARIABLES
    decayRun,           \* a decay pass on given inputs: arguments and results
    evictRun,           \* an eviction pass on given inputs: arguments and result
    propRun,            \* propagate_memory along a chain of hops
    queueRun,           \* the state shared by the clones of one LlmQueue
    hnswRun,            \* one HnswIndex and its last search
    coreRun,            \* one run of a core-library value: retrieval, board, memory
    personalities,      \* MemoryRule::personalities: entity -> PersonalityTraits
    banks,              \* MemoryRule::banks: entity -> MemoryBank
    reputation_boards,  \* MemoryRule::reputation_boards: settlement -> board
    rule_config,        \* MemoryRule::config
    rule_current_tick,  \* MemoryRule::current_tick
    next_id,            \* next fresh MemoryId
    lastOp              \* the handler that ran last, and what it removed

ruleVars ==
    <<banks, reputation_boards, personalities, rule_config, rule_current_tick, next_id,
      lastOp>>

passVars == <<decayRun, evictRun, propRun, queueRun, hnswRun, coreRun>>

vars == <<passVars, ruleVars>>

(***************************************************************************)
(* Generic helpers                                                         *)
(***************************************************************************)
Range(s) == {s[i] : i \in DOMAIN s}

Abs(x) == IF x < 0 THEN -x ELSE x

Max(a, b) == IF a >= b THEN a ELSE b

Min(a, b) == IF a <= b THEN a ELSE b

\* u64::saturating_sub
SaturatingSub(a, b) == IF a >= b THEN a - b ELSE 0

\* All sequences over S of length at most n.
SeqsUpTo(S, n) == UNION {[1..k -> S] : k \in 0..n}

\* Vec::truncate(len): keep the first len elements, drop the rest.
Truncate(s, len) == IF Len(s) <= len THEN s ELSE SubSeq(s, 1, len)

(***************************************************************************)
(* Bounds of the model                                                     *)
(***************************************************************************)
\* Longest input sequence handed to a decay pass.
MaxLen == 2

\* Longest input sequence handed to an eviction pass.
MaxEvictLen == 3

\* Number of memory ids handed out in one run of the memory rule.
MaxIds == 2

\* Sentiment reports and deeds a reputation board holds at most.
MaxReports == 2

(***************************************************************************)
(* f64::exp and f64::log2 in fixed point                                   *)
(***************************************************************************)
\* exp(-k) for whole k, in millionths.
ExpNegWholeMicro(k) ==
    CASE k = 0 -> 1000000
      [] k = 1 -> 367879
      [] k = 2 -> 135335
      [] k = 3 -> 49787
      [] k = 4 -> 18316
      [] k = 5 -> 6738
      [] k = 6 -> 2479
      [] k = 7 -> 912
      [] k = 8 -> 335
      [] k = 9 -> 123
      [] k = 10 -> 45
      [] k = 11 -> 17
      [] k = 12 -> 6
      [] k = 13 -> 2
      [] OTHER -> 0

\* exp(-f/1000) for 0 <= f < 1000, in millionths (alternating Taylor series).
ExpNegFracMicro(f) ==
    LET t1 == f * 1000
        t2 == (t1 * f) \div 2000
        t3 == (t2 * f) \div 3000
        t4 == (t3 * f) \div 4000
        t5 == (t4 * f) \div 5000
        t6 == (t5 * f) \div 6000
        t7 == (t6 * f) \div 7000
        t8 == (t7 * f) \div 8000
    IN  1000000 - t1 + t2 - t3 + t4 - t5 + t6 - t7 + t8

\* exp(-x/1000) in millionths, x >= 0 in thousandths.
ExpNegMicro(x) ==
    LET k == x \div 1000
        f == x % 1000
        w == ExpNegWholeMicro(k)
        g == ExpNegFracMicro(f)
    IN  IF k > 13 THEN 0
        ELSE (w * (g \div 1000)) \div 1000 + (w * (g % 1000)) \div 1000000

\* ceil(1000 * exp(-x/1000)): f64 exp is exactly 1.0 at 0, positive up to
\* about x = 745.13 and exactly 0.0 beyond (underflow).  The fixed-point
\* series is accurate to a few millionths, so the value can be off by one
\* thousandth only where 1000 * exp(-x/1000) is within that distance of a
\* whole number.
ExpNegCeilMilli(x) ==
    IF x = 0 THEN 1000
    ELSE IF x > 745133 THEN 0
    ELSE Max(1, (ExpNegMicro(x) + 999) \div 1000)

\* floor(log2(n)) for n >= 1.
RECURSIVE FloorLog2(_)
FloorLog2(n) == IF n < 2 THEN 0 ELSE 1 + FloorLog2(n \div 2)

RECURSIVE Pow2(_)
Pow2(k) == IF k = 0 THEN 1 ELSE 2 * Pow2(k - 1)

\* log2(n) in thousandths for n >= 1: exact at powers of two, linear between.
Log2Milli(n) ==
    LET k == FloorLog2(n)
    IN  1000 * k + (1000 * (n - Pow2(k))) \div Pow2(k)

(***************************************************************************)
(* decay.rs                                                                *)
(***************************************************************************)
\* Ticks per game-day used by the decay engine.
TicksPerDay == 72000

\* memory_strength, in thousandths of a game-day:
\*   10 * (1 + importance) * (1 + intensity) * max(1, log2(1 + access_count))
\*      * (1.5 if first meeting else 1.0)
memory_strength(importance, emotional_intensity, access_count, is_first_meeting) ==
    LET importance_factor == 100 + importance
        emotional_factor == 100 + emotional_intensity
        rehearsal_factor == Max(1000, Log2Milli(1 + access_count))
        unbonused == (importance_factor * emotional_factor * (rehearsal_factor \div 10)) \div 100
    IN  IF is_first_meeting THEN (unbonused * 3) \div 2 ELSE unbonused

\* ebbinghaus(delta_days, strength) as ceil(1000 * R); delta in thousandths of a
\* day, strength in thousandths.
ebbinghaus(delta_days, strength) ==
    IF strength <= 0 THEN 0
    ELSE LET whole == delta_days \div strength
             rest == delta_days % strength
         IN  IF whole > 1000 THEN 0
             ELSE ExpNegCeilMilli(whole * 1000 + (rest * 1000) \div strength)

\* Elapsed game-days in thousandths between two ticks (saturating).
DeltaDaysMilli(now, then) == SaturatingSub(now, then) \div (TicksPerDay \div 1000)

episodic_retention(memory, current_tick) ==
    ebbinghaus(DeltaDaysMilli(current_tick, memory.tick),
               memory_strength(memory.importance, Abs(memory.emotional_valence),
                               memory.access_count, memory.is_first_meeting))

social_retention(memory, current_tick) ==
    LET strength == (memory.trust_in_source * 100) \div (1 + memory.propagation_depth)
    IN  ebbinghaus(DeltaDaysMilli(current_tick, memory.received_at), strength)

\* Variant of the retain closure without the first-meeting guard.
EpisodicSurvivesNoFirstMeeting(memory, current_tick, threshold) ==
    IF Abs(memory.emotional_valence) > 80 THEN TRUE
    ELSE episodic_retention(memory, current_tick) > threshold

\* Variant of the retain closure comparing with >= instead of >.
EpisodicSurvivesNonStrict(memory, current_tick, threshold) ==
    IF memory.is_first_meeting THEN TRUE
    ELSE IF Abs(memory.emotional_valence) > 80 THEN TRUE
    ELSE episodic_retention(memory, current_tick) >= threshold

\* The closure handed to retain by decay_episodic_memories.
EpisodicSurvives(memory, current_tick, threshold) ==
    IF memory.is_first_meeting THEN TRUE
    ELSE IF Abs(memory.emotional_valence) > 80 THEN TRUE
    ELSE episodic_retention(memory, current_tick) > threshold

\* Variant of the pass that pushes the survivors back onto the vector instead
\* of replacing its contents.
decay_episodic_extending(memories, current_tick, decay_rate) ==
    LET Keep(m) == EpisodicSurvives(m, current_tick, decay_rate)
    IN  memories \o SelectSeq(memories, Keep)

\* Variant of the pass that removes while iterating by index, so the element
\* following a removed one is never examined.
RECURSIVE decay_episodic_skipping(_, _, _)
decay_episodic_skipping(memories, current_tick, decay_rate) ==
    IF memories = <<>> THEN <<>>
    ELSE IF EpisodicSurvives(Head(memories), current_tick, decay_rate)
    THEN <<Head(memories)>> \o decay_episodic_skipping(Tail(memories), current_tick, decay_rate)
    ELSE IF Len(memories) = 1 THEN <<>>
    ELSE <<memories[2]>> \o decay_episodic_skipping(Tail(Tail(memories)), current_tick, decay_rate)

decay_episodic_memories(memories, current_tick, decay_rate) ==
    LET Keep(m) == EpisodicSurvives(m, current_tick, decay_rate)
    IN  SelectSeq(memories, Keep)

decay_social_memories(memories, current_tick, threshold) ==
    LET Keep(m) == social_retention(m, current_tick) > threshold
    IN  SelectSeq(memories, Keep)

(***************************************************************************)
(* eviction.rs                                                             *)
(***************************************************************************)
\* Mutant of classify_ring: no clock-skew guard, the age is the distance
\* between the two ticks.
classify_ring_unguarded(memory_tick, current_tick, ticks_per_hour, config) ==
    LET age_ticks == Abs(current_tick - memory_tick)
        age_hours == IF ticks_per_hour = 0 THEN 0 ELSE age_ticks \div ticks_per_hour
    IN  IF age_hours < config.hot_ring_hours THEN "Hot"
        ELSE IF age_hours < config.warm_ring_days * 24 THEN "Warm"
        ELSE IF age_hours < config.cold_ring_days * 24 THEN "Cold"
        ELSE "Archive"

\* classify_ring: the ring of a memory by its age in game-hours.
classify_ring(memory_tick, current_tick, ticks_per_hour, config) ==
    IF current_tick < memory_tick THEN "Hot"
    ELSE LET age_ticks == current_tick - memory_tick
             age_hours == IF ticks_per_hour = 0 THEN 0 ELSE age_ticks \div ticks_per_hour
             hot_limit == config.hot_ring_hours
             warm_limit == config.warm_ring_days * 24
             cold_limit == config.cold_ring_days * 24
         IN  IF age_hours < hot_limit THEN "Hot"
             ELSE IF age_hours < warm_limit THEN "Warm"
             ELSE IF age_hours < cold_limit THEN "Cold"
             ELSE "Archive"

\* eviction_score.  A score is f64::MAX (max = TRUE) or the finite value
\* num / (den * 10000): importance * (1 + |valence|) * (1 / ticks).
eviction_score(importance, emotional_valence, is_first_meeting, ticks_since_last_access, config) ==
    IF is_first_meeting /\ config.protect_first_meeting
    THEN [max |-> TRUE, num |-> 0, den |-> 1]
    ELSE IF Abs(emotional_valence) > config.protect_emotional_threshold
    THEN [max |-> TRUE, num |-> 0, den |-> 1]
    ELSE [max |-> FALSE,
          num |-> importance * (100 + Abs(emotional_valence)),
          den |-> IF ticks_since_last_access = 0 THEN 1 ELSE ticks_since_last_access]

\* a > b on scores (f64 partial_cmp yielding Greater).
ScoreGreater(a, b) ==
    IF a.max THEN ~b.max
    ELSE IF b.max THEN FALSE
    ELSE a.num * b.den > b.num * a.den

\* Insert one scored memory into a sequence already sorted by descending
\* score, after every element whose score is not smaller (stable sort).
RECURSIVE InsertByScoreDesc(_, _)
InsertByScoreDesc(sorted, x) ==
    IF sorted = <<>> THEN <<x>>
    ELSE IF ScoreGreater(x.score, Head(sorted).score) THEN <<x>> \o sorted
    ELSE <<Head(sorted)>> \o InsertByScoreDesc(Tail(sorted), x)

\* slice::sort_by(|a, b| b.0.partial_cmp(&a.0)): stable, highest score first.
RECURSIVE SortByScoreDesc(_)
SortByScoreDesc(scored) ==
    IF scored = <<>> THEN <<>>
    ELSE InsertByScoreDesc(SortByScoreDesc(SubSeq(scored, 1, Len(scored) - 1)),
                           scored[Len(scored)])

\* Mutant of InRings: a Warm memory is also taken for a Cold one.
InRingsWarmAsCold(memories, rings, current_tick, ticks_per_hour, config) ==
    LET Keep(m) == classify_ring(m.tick, current_tick, ticks_per_hour, config)
                      \in rings \cup (IF "Cold" \in rings THEN {"Warm"} ELSE {})
    IN  SelectSeq(memories, Keep)

\* The first loop of evict_episodic_memories: the memories, in order, whose
\* ring is one of rings.
InRings(memories, rings, current_tick, ticks_per_hour, config) ==
    LET Keep(m) == classify_ring(m.tick, current_tick, ticks_per_hour, config) \in rings
    IN  SelectSeq(memories, Keep)

\* Variant of the spill loop that keeps one memory too many (i <= max).
SpillKeepCountInclusive(max_in_memory) == max_in_memory + 1

\* The spill loop keeps the memories at index i < max_in_memory.
SpillKeepCount(max_in_memory) == max_in_memory

evict_episodic_memories(memories, current_tick, ticks_per_hour, max_in_memory, config) ==
    LET hotwarm == InRings(memories, {"Hot", "Warm"}, current_tick, ticks_per_hour, config)
        cold == InRings(memories, {"Cold"}, current_tick, ticks_per_hour, config)
        archive == InRings(memories, {"Archive"}, current_tick, ticks_per_hour, config)
        scored == [i \in DOMAIN hotwarm |->
                     [score |-> eviction_score(
                                    hotwarm[i].importance,
                                    hotwarm[i].emotional_valence,
                                    hotwarm[i].is_first_meeting,
                                    SaturatingSub(current_tick, hotwarm[i].last_accessed),
                                    config),
                      mem |-> hotwarm[i]]]
        sorted == SortByScoreDesc(scored)
        keep == Min(SpillKeepCount(max_in_memory), Len(sorted))
    IN  IF Len(hotwarm) > max_in_memory
        THEN [retained |-> [i \in 1..keep |-> sorted[i].mem],
              to_cold_storage |->
                  cold \o [i \in 1..(Len(sorted) - keep) |-> sorted[keep + i].mem],
              to_archive |-> archive]
        ELSE [retained |-> hotwarm, to_cold_storage |-> cold, to_archive |-> archive]

\* evict_social_memories: the pair (retained, evicted).  A social memory is
\* scored trust_in_source / (1 + age in ticks).
evict_social_memories(memories, current_tick, ticks_per_hour, max_in_memory, config) ==
    LET Ring(m) == classify_ring(m.received_at, current_tick, ticks_per_hour, config)
        kept == SelectSeq(memories, LAMBDA m : Ring(m) \in {"Hot", "Warm", "Cold"})
        archive == SelectSeq(memories, LAMBDA m : Ring(m) = "Archive")
        scored == [i \in DOMAIN kept |->
                     [score |-> [max |-> FALSE,
                                 num |-> kept[i].trust_in_source,
                                 den |-> 1 + SaturatingSub(current_tick,
                                                           kept[i].received_at)],
                      mem |-> kept[i]]]
        sorted == SortByScoreDesc(scored)
        keep == Min(max_in_memory, Len(sorted))
    IN  IF Len(kept) > max_in_memory
        THEN [retained |-> [i \in 1..keep |-> sorted[i].mem],
              evicted |->
                  archive \o [i \in 1..(Len(sorted) - keep) |-> sorted[keep + i].mem]]
        ELSE [retained |-> kept, evicted |-> archive]

(***************************************************************************)
(* memory/episodic.rs, memory/social.rs, memory/mod.rs                     *)
(***************************************************************************)
Clamp(x, lo, hi) == IF x < lo THEN lo ELSE IF x > hi THEN hi ELSE x

\* EpisodicMemory::new
EpisodicMemory_new(id, timestamp, emotional_valence, importance) ==
    [id |-> id,
     tick |-> timestamp,
     emotional_valence |-> Clamp(emotional_valence, -100, 100),
     importance |-> Clamp(importance, 0, 100),
     strength |-> 100,
     access_count |-> 0,
     last_accessed |-> timestamp,
     is_first_meeting |-> FALSE]

\* EpisodicMemory::with_first_meeting
with_first_meeting(memory) == [memory EXCEPT !.is_first_meeting = TRUE]

\* SocialMemory::new
SocialMemory_new(id, about, source, trust_in_source, propagation_depth, timestamp) ==
    [id |-> id,
     about |-> about,
     source |-> source,
     believed |-> trust_in_source > 50,
     trust_in_source |-> Clamp(trust_in_source, 0, 100),
     propagation_depth |-> propagation_depth,
     received_at |-> timestamp,
     sentiment |-> 0]

\* EmotionalMemory::new (target, intensity, last_updated).
EmotionalMemory_new(id, target, intensity, timestamp) ==
    [id |-> id, target |-> target, intensity |-> Clamp(intensity, 0, 100),
     last_updated |-> timestamp]

\* MemoryBank::new
EmptyBank ==
    [episodic |-> <<>>, semantic |-> <<>>, emotional |-> <<>>, social |-> <<>>,
     reflective |-> <<>>, procedural |-> <<>>, injected |-> <<>>]

\* The seven variant sequences of a bank.
Variants ==
    {"episodic", "semantic", "emotional", "social", "reflective", "procedural",
     "injected"}

VariantSeq(bank, v) ==
    CASE v = "episodic" -> bank.episodic
      [] v = "semantic" -> bank.semantic
      [] v = "emotional" -> bank.emotional
      [] v = "social" -> bank.social
      [] v = "reflective" -> bank.reflective
      [] v = "procedural" -> bank.procedural
      [] v = "injected" -> bank.injected

(***************************************************************************)
(* reputation.rs                                                           *)
(* Scores and sentiments are in millionths.                                *)
(***************************************************************************)
\* a * b / 10^6 for 0 <= a, b <= 10^6 without leaving 32 bits.
MulMicro(a, b) == (a * (b \div 1000)) \div 1000 + (a * (b % 1000)) \div 1000000

\* Division truncating toward zero (f32 division of the running mean, to the
\* model's resolution).
DivTrunc(a, b) == IF a >= 0 THEN a \div b ELSE -((-a) \div b)

\* ReputationBoard::new
ReputationBoard_new(timestamp) ==
    [entries |-> <<>>, notable_deeds |-> <<>>, max_entries |-> 100, max_deeds |-> 20,
     last_refresh |-> timestamp]

\* Index of the entry about entity, 0 if none (iter_mut().find).
EntryIndex(entries, entity) ==
    IF \E i \in DOMAIN entries : entries[i].entity = entity
    THEN CHOOSE i \in DOMAIN entries :
            /\ entries[i].entity = entity
            /\ \A j \in 1..(i - 1) : entries[j].entity # entity
    ELSE 0

\* Mutant of clamp_sentiment: the sentiment is taken as given.
clamp_sentiment_off(sentiment) == sentiment

\* sentiment.clamp(-1.0, 1.0)
clamp_sentiment(sentiment) == Clamp(sentiment, -1000000, 1000000)

\* Mutant of running_average: the new sentiment weighs as much as all before.
running_average_unweighted(score, n, sentiment) == DivTrunc(score + sentiment, 2)

\* (entry.score * n + sentiment) / (n + 1.0)
running_average(score, n, sentiment) == DivTrunc(score * n + sentiment, n + 1)

\* Mutant of EntryBefore: fewest contributors first.
EntryBeforeFewest(a, b) == a.contributor_count < b.contributor_count

\* Ordering of report_sentiment's capacity sort: more contributors first, then
\* larger |score|.
EntryBefore(a, b) ==
    \/ a.contributor_count > b.contributor_count
    \/ /\ a.contributor_count = b.contributor_count
       /\ Abs(a.score) > Abs(b.score)

RECURSIVE InsertEntry(_, _)
InsertEntry(sorted, x) ==
    IF sorted = <<>> THEN <<x>>
    ELSE IF EntryBefore(x, Head(sorted)) THEN <<x>> \o sorted
    ELSE <<Head(sorted)>> \o InsertEntry(Tail(sorted), x)

RECURSIVE SortEntries(_)
SortEntries(entries) ==
    IF entries = <<>> THEN <<>>
    ELSE InsertEntry(SortEntries(SubSeq(entries, 1, Len(entries) - 1)),
                     entries[Len(entries)])

\* ReputationBoard::report_sentiment
report_sentiment(board, entity, sentiment, timestamp) ==
    LET s == clamp_sentiment(sentiment)
        i == EntryIndex(board.entries, entity)
    IN  IF i # 0
        THEN LET n == board.entries[i].contributor_count
             IN  [board EXCEPT
                    !.entries[i].score = running_average(board.entries[i].score, n, s),
                    !.entries[i].contributor_count = n + 1,
                    !.entries[i].last_updated = timestamp]
        ELSE LET pushed == Append(board.entries,
                                  [entity |-> entity, score |-> s,
                                   contributor_count |-> 1, last_updated |-> timestamp])
             IN  [board EXCEPT
                    !.entries = IF Len(pushed) > board.max_entries
                                THEN Truncate(SortEntries(pushed), board.max_entries)
                                ELSE pushed]

RECURSIVE InsertDeed(_, _)
InsertDeed(sorted, x) ==
    IF sorted = <<>> THEN <<x>>
    ELSE IF Abs(x.valence) > Abs(Head(sorted).valence) THEN <<x>> \o sorted
    ELSE <<Head(sorted)>> \o InsertDeed(Tail(sorted), x)

RECURSIVE SortDeeds(_)
SortDeeds(deeds) ==
    IF deeds = <<>> THEN <<>>
    ELSE InsertDeed(SortDeeds(SubSeq(deeds, 1, Len(deeds) - 1)), deeds[Len(deeds)])

\* Mutant of record_deed: on overflow the deed just recorded is dropped.
record_deed_dropping_newest(board, deed) ==
    LET pushed == Append(board.notable_deeds, deed)
    IN  [board EXCEPT !.notable_deeds = Truncate(pushed, board.max_deeds)]

\* ReputationBoard::record_deed
record_deed(board, deed) ==
    LET pushed == Append(board.notable_deeds, deed)
    IN  [board EXCEPT
           !.notable_deeds = IF Len(pushed) > board.max_deeds
                             THEN Truncate(SortDeeds(pushed), board.max_deeds)
                             ELSE pushed]

\* One entry after the decay loop of decay_reputations: score * exp(-rate * days),
\* decay_rate in thousandths.
DecayedEntry(entry, decay_rate, timestamp) ==
    LET days == DeltaDaysMilli(timestamp, entry.last_updated)
        x == (decay_rate * days) \div 1000
        decay == ExpNegMicro(x)
    IN  [entry EXCEPT !.score = IF entry.score >= 0 THEN MulMicro(entry.score, decay)
                                ELSE -MulMicro(-entry.score, decay)]

\* Mutant of retained: nothing is removed.
retained_always(entry) == TRUE

\* The retain predicate of decay_reputations: e.score.abs() > 0.05
retained(entry) == Abs(entry.score) > 50000

\* ReputationBoard::decay_reputations
decay_reputations(board, decay_rate, timestamp) ==
    LET decayed == [i \in DOMAIN board.entries |->
                       DecayedEntry(board.entries[i], decay_rate, timestamp)]
    IN  [board EXCEPT !.entries = SelectSeq(decayed, retained),
                      !.last_refresh = timestamp]

(***************************************************************************)
(* social.rs: propagate_memory, gossip_probability, is_propagatable        *)
(* Personality traits, trust, consistency, reliability and sentiment are   *)
(* in hundredths; belief and gossip probability in millionths.             *)
(***************************************************************************)
\* PersonalityTraits::default (the traits the propagation reads).
DefaultPersonality == [credulity |-> 50, openness |-> 50, gossip_tendency |-> 50]

\* BELIEF_THRESHOLD + HYSTERESIS and BELIEF_THRESHOLD - HYSTERESIS.
AcceptAbove == 550000

RejectBelow == 450000

MAX_CHAIN_DEPTH == 4

\* Steps 1 to 8 of propagate_memory: the belief score, clamped to [0, 1].
belief_score(claim, receiver_personality, trust_in_source, has_direct_experience, direct_sentiment, existing_belief_consistency, receiver_emotional_state, source_reliability, current_time) ==
    LET direct_evidence ==
            Clamp(IF direct_sentiment = <<>> THEN 0 ELSE direct_sentiment[1], 0, 100)
        prior == IF has_direct_experience THEN 8000 * direct_evidence ELSE 0
        credibility == trust_in_source * 6 + source_reliability * 4
        emotional_bias == IF receiver_emotional_state > 50 THEN -100000
                          ELSE IF receiver_emotional_state < -50 THEN 100000
                          ELSE 0
        days_since_claim == DeltaDaysMilli(current_time, claim.received_at)
        freshness == ExpNegMicro(days_since_claim \div 10)
        weighed == MulMicro(credibility * existing_belief_consistency * 10, freshness)
        discounted == weighed \div (1 + claim.propagation_depth)
        hearsay == IF has_direct_experience THEN discounted \div 5 ELSE discounted
        personality ==
            receiver_personality.credulity * receiver_personality.openness * 15
    IN  Clamp(prior + hearsay + personality + emotional_bias, 0, 1000000)

\* Mutant of PropagationOutcome: the acceptance threshold is not strict.
PropagationOutcomeInclusive(belief, openness) ==
    IF belief >= AcceptAbove THEN [kind |-> "Accepted", will_investigate |-> FALSE]
    ELSE IF belief < RejectBelow THEN [kind |-> "Rejected", will_investigate |-> FALSE]
    ELSE [kind |-> "Uncertain", will_investigate |-> openness > 50]

\* Step 9 of propagate_memory: the variant returned for a belief.
PropagationOutcome(belief, openness) ==
    IF belief > AcceptAbove THEN [kind |-> "Accepted", will_investigate |-> FALSE]
    ELSE IF belief < RejectBelow THEN [kind |-> "Rejected", will_investigate |-> FALSE]
    ELSE [kind |-> "Uncertain", will_investigate |-> openness > 50]

\* Mutant of AcceptedMemory: the receiver's memory keeps the claim's depth.
AcceptedMemorySameDepth(id, claim, trust_in_source, current_time) ==
    SocialMemory_new(id, claim.about, claim.source, trust_in_source,
                     claim.propagation_depth, current_time)

\* The social memory created for the receiver on acceptance.
AcceptedMemory(id, claim, trust_in_source, current_time) ==
    SocialMemory_new(id, claim.about, claim.source, trust_in_source,
                     claim.propagation_depth + 1, current_time)

\* propagate_memory; id is the MemoryId a new memory would get.
propagate_memory(id, claim, receiver_id, receiver_personality, trust_in_source, has_direct_experience, direct_sentiment, existing_belief_consistency, receiver_emotional_state, source_reliability, current_time) ==
    LET belief == belief_score(claim, receiver_personality, trust_in_source,
                               has_direct_experience, direct_sentiment,
                               existing_belief_consistency, receiver_emotional_state,
                               source_reliability, current_time)
        outcome == PropagationOutcome(belief, receiver_personality.openness)
    IN  [kind |-> outcome.kind,
         will_investigate |-> outcome.will_investigate,
         belief_strength |-> belief,
         new_memory |-> IF outcome.kind = "Accepted"
                        THEN AcceptedMemory(id, claim, trust_in_source, current_time)
                        ELSE "none"]

\* gossip_probability, in millionths; importance and emotional weight in
\* thousandths.
gossip_probability(personality, memory_importance, memory_emotional_weight) ==
    Clamp(personality.gossip_tendency * 10000 + memory_importance * 300
              + memory_emotional_weight * 200,
          0, 1000000)

\* Mutant of is_propagatable: a memory at the maximum depth still passes.
is_propagatable_at_max_depth(memory) ==
    memory.propagation_depth <= MAX_CHAIN_DEPTH /\ memory.trust_in_source > 10

is_propagatable(memory) ==
    memory.propagation_depth < MAX_CHAIN_DEPTH /\ memory.trust_in_source > 10

(***************************************************************************)
(* memory_rule.rs: MemoryRule and its event handlers.                      *)
(* A handler is an operator from the rule's mutable part                   *)
(*   r = [banks, boards, next_id]                                          *)
(* to its value after the call.                                            *)
(***************************************************************************)
Entities == {"e1", "e2"}

Settlements == {"s1"}

\* Option::None for an entity or a settlement.
None == "none"

\* MemoryRule::bank_mut: the banks with an empty bank created for entity if absent.
bank_mut(bs, entity) ==
    IF entity \in DOMAIN bs THEN bs ELSE bs @@ (entity :> EmptyBank)

\* MemoryRule::reputation_board: the boards with one created for settlement if absent.
reputation_board(boards, settlement, timestamp) ==
    IF settlement \in DOMAIN boards THEN boards
    ELSE boards @@ (settlement :> ReputationBoard_new(timestamp))

\* Mutant of PushEpisodic: the new memory goes to the front of the sequence.
PushEpisodicFront(r, entity, timestamp, emotional_valence, importance) ==
    LET bs == bank_mut(r.banks, entity)
        mem == EpisodicMemory_new(r.next_id, timestamp, emotional_valence, importance)
    IN  [r EXCEPT !.banks = [bs EXCEPT ![entity].episodic = <<mem>> \o @],
                  !.next_id = @ + 1]

\* rule.bank_mut(entity).episodic.push(EpisodicMemory::new(..))
PushEpisodic(r, entity, timestamp, emotional_valence, importance) ==
    LET bs == bank_mut(r.banks, entity)
        mem == EpisodicMemory_new(r.next_id, timestamp, emotional_valence, importance)
    IN  [r EXCEPT !.banks = [bs EXCEPT ![entity].episodic = Append(@, mem)],
                  !.next_id = @ + 1]

\* rule.bank_mut(entity).social.push(SocialMemory::new(..))
PushSocial(r, entity, about, source, trust_in_source, propagation_depth, timestamp) ==
    LET bs == bank_mut(r.banks, entity)
        mem == SocialMemory_new(r.next_id, about, source, trust_in_source,
                                propagation_depth, timestamp)
    IN  [r EXCEPT !.banks = [bs EXCEPT ![entity].social = Append(@, mem)],
                  !.next_id = @ + 1]

\* rule.reputation_board(settlement, ts).report_sentiment(..)
ReportToBoard(r, settlement, entity, sentiment, timestamp) ==
    LET boards == reputation_board(r.boards, settlement, timestamp)
    IN  [r EXCEPT !.boards = [boards EXCEPT ![settlement] =
                                 report_sentiment(@, entity, sentiment, timestamp)]]

\* board.record_deed(NotableDeed {..}) on a board that exists.
DeedToBoard(r, settlement, actor, valence, timestamp, witness_count) ==
    [r EXCEPT !.boards[settlement] =
        record_deed(@, [actor |-> actor, valence |-> valence, timestamp |-> timestamp,
                        witness_count |-> witness_count])]

\* The body of on_death's loop for one witness.
on_death_witness(r, witness, deceased, killer, witness_count, settlement, timestamp) ==
    LET r1 == PushEpisodic(r, witness, timestamp, -80, 90)
    IN  IF killer = None THEN r1
        ELSE LET r2 == PushSocial(r1, witness, killer, witness, 100, 0, timestamp)
             IN  IF settlement = None THEN r2
                 ELSE DeedToBoard(
                          ReportToBoard(r2, settlement, killer, -500000, timestamp),
                          settlement, killer, -80, timestamp, witness_count)

RECURSIVE on_death_from(_, _, _, _, _, _, _)
on_death_from(r, i, deceased, killer, witnesses, settlement, timestamp) ==
    IF i > Len(witnesses) THEN r
    ELSE on_death_from(
             on_death_witness(r, witnesses[i], deceased, killer, Len(witnesses),
                              settlement, timestamp),
             i + 1, deceased, killer, witnesses, settlement, timestamp)

on_death(r, deceased, killer, witnesses, settlement, timestamp) ==
    on_death_from(r, 1, deceased, killer, witnesses, settlement, timestamp)

\* The body of on_theft's loop for one witness.
on_theft_witness(r, witness, thief, timestamp) ==
    PushSocial(PushEpisodic(r, witness, timestamp, -50, 60),
               witness, thief, witness, 100, 0, timestamp)

RECURSIVE on_theft_from(_, _, _, _, _)
on_theft_from(r, i, thief, witnesses, timestamp) ==
    IF i > Len(witnesses) THEN r
    ELSE on_theft_from(on_theft_witness(r, witnesses[i], thief, timestamp),
                       i + 1, thief, witnesses, timestamp)

on_theft(r, thief, witnesses, settlement, timestamp) ==
    LET r1 == on_theft_from(r, 1, thief, witnesses, timestamp)
    IN  IF settlement = None THEN r1
        ELSE DeedToBoard(ReportToBoard(r1, settlement, thief, -300000, timestamp),
                         settlement, thief, -50, timestamp, Len(witnesses))

\* A loop over witnesses that pushes one episodic memory for every witness not
\* in skip (the `continue` of on_helped, on_combat and the quest event).
RECURSIVE PushForWitnesses(_, _, _, _, _, _, _)
PushForWitnesses(r, i, witnesses, skip, timestamp, emotional_valence, importance) ==
    IF i > Len(witnesses) THEN r
    ELSE PushForWitnesses(
             IF witnesses[i] \in skip THEN r
             ELSE PushEpisodic(r, witnesses[i], timestamp, emotional_valence, importance),
             i + 1, witnesses, skip, timestamp, emotional_valence, importance)

on_helped(r, helped, helper, witnesses, settlement, timestamp) ==
    LET r1 == PushEpisodic(r, helped, timestamp, 70, 70)
        r2 == PushForWitnesses(r1, 1, witnesses, {helped}, timestamp, 50, 50)
    IN  IF settlement = None THEN r2
        ELSE DeedToBoard(ReportToBoard(r2, settlement, helper, 300000, timestamp),
                         settlement, helper, 50, timestamp, Len(witnesses) + 1)

\* fairness in hundredths: buyer feels fairness * 0.5, seller -fairness * 0.3.
on_trade(r, buyer, seller, fairness, timestamp) ==
    LET r1 == PushEpisodic(r, buyer, timestamp, DivTrunc(fairness * 5, 10), 30)
    IN  PushEpisodic(r1, seller, timestamp, DivTrunc(-fairness * 3, 10), 30)

on_combat(r, attacker, defender, attacker_won, witnesses, settlement, timestamp) ==
    LET r1 == PushEpisodic(r, attacker, timestamp, IF attacker_won THEN 30 ELSE -40, 70)
        r2 == PushEpisodic(r1, defender, timestamp, IF attacker_won THEN -50 ELSE 20, 80)
        r3 == PushForWitnesses(r2, 1, witnesses, {attacker, defender}, timestamp, -30, 60)
    IN  IF settlement = None THEN r3
        ELSE ReportToBoard(r3, settlement, attacker, -200000, timestamp)

\* process_game_event: dispatch on the event's variant.
process_game_event(r, event, settlement) ==
    LET timestamp == event.timestamp
    IN  CASE event.kind = "Death" ->
               on_death(r, event.a, None, event.witnesses, settlement, timestamp)
          [] event.kind = "Harmed" ->
               PushEpisodic(on_theft(r, event.a, event.witnesses, settlement, timestamp),
                            event.b, timestamp, -70, 70)
          [] event.kind = "Helped" ->
               on_helped(r, event.b, event.a, event.witnesses, settlement, timestamp)
          [] event.kind = "Combat" ->
               on_combat(r, event.a, event.b, event.outcome = "AttackerWon",
                         event.witnesses, settlement, timestamp)
          [] event.kind = "Trade" ->
               on_trade(r, event.a, event.b, event.perceived_fairness, timestamp)
          [] event.kind = "Dialogue" ->
               PushEpisodic(PushEpisodic(r, event.b, timestamp, 10, 30),
                            event.a, timestamp, 10, 20)
          [] event.kind = "Arrival" ->
               PushForWitnesses(r, 1, event.witnesses, {}, timestamp, 0, 20)
          [] event.kind = "QuestEvent" ->
               PushForWitnesses(PushEpisodic(r, event.a, timestamp, 50, 80),
                                1, event.witnesses, {event.a}, timestamp, 30, 50)
          [] event.kind = "Custom" ->
               PushForWitnesses(r, 1, event.witnesses, {}, timestamp,
                                event.emotional_valence, event.importance)

(***************************************************************************)
(* memory_rule.rs: on_tick                                                 *)
(***************************************************************************)
\* MemoryConfig::default: the per-variant caps and the decay rate (thousandths).
DefaultConfig ==
    [max_episodic_per_npc |-> 200, max_semantic_per_npc |-> 50,
     max_social_per_npc |-> 100, max_procedural_per_npc |-> 30,
     max_reflective_per_npc |-> 20, decay_rate |-> 50]

\* A configuration handed to MemoryRule::with_config whose caps the banks of
\* the model can exceed.
SmallConfig ==
    [max_episodic_per_npc |-> 1, max_semantic_per_npc |-> 1,
     max_social_per_npc |-> 1, max_procedural_per_npc |-> 1,
     max_reflective_per_npc |-> 1, decay_rate |-> 50]

Configs == {SmallConfig}

DecayPeriod == 60

LimitPeriod == 300

ReputationPeriod == 10000

\* The rate on_tick passes to decay_reputations, 0.02, in thousandths.
ReputationDecayRate == 20

\* The decay step of on_tick for one bank.
on_tick_decay(bank, timestamp, config) ==
    [bank EXCEPT
        !.episodic = decay_episodic_memories(@, timestamp, config.decay_rate),
        !.social = decay_social_memories(@, timestamp, config.decay_rate)]

\* Mutant of on_tick_limits: the reflective sequence is left out.
on_tick_limits_no_reflective(bank, config) ==
    [bank EXCEPT
        !.episodic = Truncate(@, config.max_episodic_per_npc),
        !.semantic = Truncate(@, config.max_semantic_per_npc),
        !.social = Truncate(@, config.max_social_per_npc),
        !.procedural = Truncate(@, config.max_procedural_per_npc)]

\* The limit enforcement step of on_tick for one bank.
on_tick_limits(bank, config) ==
    [bank EXCEPT
        !.episodic = Truncate(@, config.max_episodic_per_npc),
        !.semantic = Truncate(@, config.max_semantic_per_npc),
        !.social = Truncate(@, config.max_social_per_npc),
        !.procedural = Truncate(@, config.max_procedural_per_npc),
        !.reflective = Truncate(@, config.max_reflective_per_npc)]

\* Mutant of on_tick: the decay pass runs on every tick.
on_tick_decay_every_tick(r, config, tick) ==
    LET decayed == [e \in DOMAIN r.banks |-> on_tick_decay(r.banks[e], tick, config)]
        limited == IF tick % LimitPeriod = 0
                   THEN [e \in DOMAIN decayed |-> on_tick_limits(decayed[e], config)]
                   ELSE decayed
        boards == IF tick % ReputationPeriod = 0
                  THEN [s \in DOMAIN r.boards |->
                           decay_reputations(r.boards[s], ReputationDecayRate, tick)]
                  ELSE r.boards
    IN  [r EXCEPT !.banks = limited, !.boards = boards]

ReflectionPeriod == 5000

\* reflection::should_reflect is called once per bank on a multiple of 5000 and
\* its body is not part of the sources: the sets of banks for which it may
\* return true.
should_reflect_outcomes(bs, tick) ==
    IF tick % ReflectionPeriod = 0 THEN SUBSET (DOMAIN bs) ELSE {{}}

\* The reflection jobs on_tick enqueues, given the banks for which
\* should_reflect returned true: the result is bound to _should and dropped.
on_tick_reflection_jobs(bs, tick, reflecting) == {}

\* on_tick, apart from the assignment of current_tick.  The reflection check
\* on multiples of 5000 computes a value it discards and changes nothing.
on_tick(r, config, tick) ==
    LET decayed == IF tick % DecayPeriod = 0
                   THEN [e \in DOMAIN r.banks |-> on_tick_decay(r.banks[e], tick, config)]
                   ELSE r.banks
        limited == IF tick % LimitPeriod = 0
                   THEN [e \in DOMAIN decayed |-> on_tick_limits(decayed[e], config)]
                   ELSE decayed
        boards == IF tick % ReputationPeriod = 0
                  THEN [s \in DOMAIN r.boards |->
                           decay_reputations(r.boards[s], ReputationDecayRate, tick)]
                  ELSE r.boards
    IN  [r EXCEPT !.banks = limited, !.boards = boards]

(***************************************************************************)
(* systems.rs: enforce_limits; observation.rs: observe                     *)
(***************************************************************************)
enforce_limits(bank, config) ==
    [bank EXCEPT
        !.episodic = Truncate(@, config.max_episodic_per_npc),
        !.semantic = Truncate(@, config.max_semantic_per_npc),
        !.social = Truncate(@, config.max_social_per_npc),
        !.procedural = Truncate(@, config.max_procedural_per_npc),
        !.reflective = Truncate(@, config.max_reflective_per_npc)]

detect_first_meeting(participants, observer, known_entities) ==
    \E i \in DOMAIN participants :
        participants[i] # observer /\ participants[i] \notin known_entities

\* Mutant of primary_target: the first participant, the observer included.
primary_target_first(participants, observer) ==
    IF participants = <<>> THEN None ELSE participants[1]

\* The first participant other than the observer, or None.
primary_target(participants, observer) ==
    LET others == {i \in DOMAIN participants : participants[i] # observer}
    IN  IF others = {} THEN None
        ELSE participants[CHOOSE i \in others : \A j \in others : i <= j]

\* observe on the observer's bank in r.
observe(r, event, observer, known_entities) ==
    LET is_first_meeting ==
            \/ event.kind = "FirstMeeting"
            \/ detect_first_meeting(event.participants, observer, known_entities)
        created == EpisodicMemory_new(
                       r.next_id, event.timestamp, event.emotional_valence,
                       IF is_first_meeting THEN Max(event.importance, 70)
                       ELSE event.importance)
        episodic == IF is_first_meeting THEN with_first_meeting(created) ELSE created
        bs == bank_mut(r.banks, observer)
        r1 == [r EXCEPT !.banks = [bs EXCEPT ![observer].episodic = Append(@, episodic)],
                        !.next_id = @ + 1]
        target == primary_target(event.participants, observer)
    IN  IF Abs(event.emotional_valence) > 40 /\ target # None
        THEN [r1 EXCEPT
                 !.banks[observer].emotional =
                     Append(@, EmotionalMemory_new(r1.next_id, target,
                                                   Abs(event.emotional_valence),
                                                   event.timestamp)),
                 !.next_id = @ + 1]
        ELSE r1

(***************************************************************************)
(* MemoryRule::new                                                         *)
(***************************************************************************)
EmptyMap == <<>>

NoOp(op) == [op |-> op, dropped |-> {}, reflecting |-> {}, reflection_jobs |-> {}]

PropIdle == [kind |-> "idle"]

QueueIdle == [kind |-> "idle"]

HnswIdle == [kind |-> "idle"]

CoreIdle == [kind |-> "idle"]

\* No propagation chain, queue or index is in use.
OthersIdle ==
    /\ propRun = PropIdle
    /\ queueRun = QueueIdle
    /\ hnswRun = HnswIdle
    /\ coreRun = CoreIdle

MemoryRule_new ==
    /\ banks = EmptyMap
    /\ personalities = EmptyMap
    /\ reputation_boards = EmptyMap
    /\ rule_current_tick = 0
    /\ next_id = 1
    /\ lastOp = NoOp("new")

(***************************************************************************)
(* Decay passes applied to arbitrary inputs                                *)
(***************************************************************************)
\* Episodic memories a pass may be handed (ids are given by position).
EpisodicShapes ==
    [tick : {0, 3000000},
     emotional_valence : {-90, 10, 80},
     importance : {10},
     access_count : {0, 3},
     is_first_meeting : BOOLEAN]

\* Social memories a pass may be handed.
SocialShapes ==
    [received_at : {0},
     trust_in_source : {0, 70, 100},
     propagation_depth : {0, 2}]

\* Current ticks: same instant, 30 and 100 game-days on, and far enough for
\* exp to underflow to zero.
DecayNows == {0, 2160000, 7200000, 1000000000}

\* decay_rate / threshold values, in thousandths.
DecayRates == {0, 50, 1000}

WithIds(shapes) ==
    [i \in DOMAIN shapes |->
        IF "trust_in_source" \in DOMAIN shapes[i]
        THEN [id |-> i,
              received_at |-> shapes[i].received_at,
              trust_in_source |-> shapes[i].trust_in_source,
              propagation_depth |-> shapes[i].propagation_depth]
        ELSE [id |-> i,
              tick |-> shapes[i].tick,
              emotional_valence |-> shapes[i].emotional_valence,
              importance |-> shapes[i].importance,
              access_count |-> shapes[i].access_count,
              last_accessed |-> shapes[i].tick,
              is_first_meeting |-> shapes[i].is_first_meeting]]

DecayIdle == [kind |-> "idle"]

EvictIdle == [kind |-> "idle"]

DecayInit ==
    /\ \E kind \in {"episodic", "social"} :
       \E shapes \in SeqsUpTo(IF kind = "episodic" THEN EpisodicShapes ELSE SocialShapes, MaxLen) :
       \E now \in DecayNows :
       \E rate \in DecayRates :
          decayRun = [kind |-> kind, input |-> WithIds(shapes), now |-> now,
                      rate |-> rate, passes |-> 0,
                      before |-> WithIds(shapes), after |-> WithIds(shapes)]
    /\ evictRun = EvictIdle
    /\ OthersIdle
    /\ MemoryRule_new
    /\ rule_config = DefaultConfig

\* One call of decay_episodic_memories on the current sequence.
DecayEpisodicPass ==
    /\ decayRun.kind = "episodic"
    /\ decayRun.passes < 2
    /\ decayRun' = [decayRun EXCEPT
                       !.passes = @ + 1,
                       !.before = decayRun.after,
                       !.after = decay_episodic_memories(decayRun.after, decayRun.now,
                                                         decayRun.rate)]
    /\ UNCHANGED <<coreRun, evictRun, propRun, queueRun, hnswRun, ruleVars>>

\* One call of decay_social_memories on the current sequence.
DecaySocialPass ==
    /\ decayRun.kind = "social"
    /\ decayRun.passes < 2
    /\ decayRun' = [decayRun EXCEPT
                       !.passes = @ + 1,
                       !.before = decayRun.after,
                       !.after = decay_social_memories(decayRun.after, decayRun.now,
                                                       decayRun.rate)]
    /\ UNCHANGED <<coreRun, evictRun, propRun, queueRun, hnswRun, ruleVars>>

(***************************************************************************)
(* Eviction passes applied to arbitrary inputs                             *)
(***************************************************************************)
\* Episodic memories an eviction pass may be handed: old and recent, plain,
\* important, flashbulb and first-meeting.
EvictShapes ==
    {[tick |-> t, emotional_valence |-> k[1], importance |-> k[2],
      access_count |-> 0, is_first_meeting |-> k[3]] :
        t \in {0, 2990},
        k \in {<<10, 10, FALSE>>, <<10, 90, FALSE>>, <<-90, 10, FALSE>>, <<10, 10, TRUE>>}}

\* Current ticks of an eviction pass.
EvictNows == {0, 3000, 3100, 4000}

\* EvictionConfig values: the defaults, with first-meeting protection on or off.
EvictConfigs ==
    [hot_ring_hours : {24}, warm_ring_days : {7}, cold_ring_days : {90},
     protect_emotional_threshold : {80}, protect_first_meeting : BOOLEAN]

\* Social memories an eviction pass may be handed: old and recent, from
\* sources trusted little and much.
EvictSocialShapes ==
    [received_at : {0, 2990}, trust_in_source : {20, 90}, propagation_depth : {0}]

EvictInit ==
    /\ decayRun = DecayIdle
    /\ OthersIdle
    /\ MemoryRule_new
    /\ rule_config = DefaultConfig
    /\ \E now \in EvictNows :
       \E tph \in {0, 1} :
       \E max \in {0, 1, 2} :
       \E config \in EvictConfigs :
          \/ \E shapes \in SeqsUpTo(EvictShapes, MaxEvictLen) :
                evictRun = [kind |-> "episodic", input |-> WithIds(shapes),
                            current_tick |-> now, ticks_per_hour |-> tph,
                            max_in_memory |-> max, config |-> config, done |-> FALSE,
                            result |-> [retained |-> <<>>, to_cold_storage |-> <<>>,
                                        to_archive |-> <<>>]]
          \/ \E shapes \in SeqsUpTo(EvictSocialShapes, MaxEvictLen) :
                evictRun = [kind |-> "social", input |-> WithIds(shapes),
                            current_tick |-> now, ticks_per_hour |-> tph,
                            max_in_memory |-> max, config |-> config, done |-> FALSE,
                            result |-> [retained |-> <<>>, evicted |-> <<>>]]

\* One call of evict_episodic_memories.
EvictEpisodicPass ==
    /\ evictRun.kind = "episodic"
    /\ ~evictRun.done
    /\ evictRun' = [evictRun EXCEPT
                       !.done = TRUE,
                       !.result = evict_episodic_memories(
                                      evictRun.input, evictRun.current_tick,
                                      evictRun.ticks_per_hour, evictRun.max_in_memory,
                                      evictRun.config)]
    /\ UNCHANGED <<coreRun, decayRun, propRun, queueRun, hnswRun, ruleVars>>

\* One call of evict_social_memories.
EvictSocialPass ==
    /\ evictRun.kind = "social"
    /\ ~evictRun.done
    /\ evictRun' = [evictRun EXCEPT
                       !.done = TRUE,
                       !.result = evict_social_memories(
                                      evictRun.input, evictRun.current_tick,
                                      evictRun.ticks_per_hour, evictRun.max_in_memory,
                                      evictRun.config)]
    /\ UNCHANGED <<coreRun, decayRun, propRun, queueRun, hnswRun, ruleVars>>

EvictNext == EvictEpisodicPass \/ EvictSocialPass

EvictSpec == EvictInit /\ [][EvictNext]_vars

DecayNext == DecayEpisodicPass \/ DecaySocialPass

DecaySpec == DecayInit /\ [][DecayNext]_vars

(***************************************************************************)
(* propagate_memory applied hop after hop                                  *)
(***************************************************************************)
\* Longest chain of propagate_memory calls.
MaxHops == 2

\* First claims of a chain: first-hand and third-hand, about e1 from e2.
PropClaims ==
    {SocialMemory_new(1, "e1", "e2", t, d, 0) : t \in {10, 100}, d \in {0, 3}}

\* Receiver personalities.
PropPersonalities ==
    [credulity : {0, 100}, openness : {50, 100}, gossip_tendency : {50}]

\* Direct experience of the receiver: none, positive, negative.
PropDirect == << <<FALSE, <<>> >>, <<TRUE, <<90>> >>, <<TRUE, <<-50>> >> >>

\* What else a call is given: consistency with existing beliefs, the receiver's
\* emotional state, the source's reliability and the current tick.
PropContexts ==
    { [consistency |-> 55, emotional_state |-> 0, reliability |-> 100, current_time |-> 0],
      [consistency |-> 45, emotional_state |-> 0, reliability |-> 100, current_time |-> 0],
      [consistency |-> 70, emotional_state |-> 0, reliability |-> 100, current_time |-> 0],
      [consistency |-> 70, emotional_state |-> 60, reliability |-> 70, current_time |-> 720000],
      [consistency |-> 70, emotional_state |-> -60, reliability |-> 100, current_time |-> 72000] }

PropInit ==
    /\ decayRun = DecayIdle
    /\ evictRun = EvictIdle
    /\ queueRun = QueueIdle
    /\ hnswRun = HnswIdle
    /\ coreRun = CoreIdle
    /\ MemoryRule_new
    /\ rule_config = DefaultConfig
    /\ \E claim \in PropClaims :
          propRun = [kind |-> "chain", start |-> claim, claim |-> claim, prev |-> claim,
                     calls |-> 0, hops |-> 0, belief |-> 0, openness |-> 0,
                     result |-> "none"]

\* One call of propagate_memory on the chain's current claim; an accepted
\* memory becomes the claim of the next hop.
PropagateHop ==
    /\ propRun.kind = "chain"
    /\ propRun.calls < MaxHops
    /\ \E personality \in PropPersonalities, trust \in {10, 100},
          d \in DOMAIN PropDirect, context \in PropContexts :
          LET claim == propRun.claim
              direct == PropDirect[d]
              consistency == context.consistency
              emotional_state == context.emotional_state
              reliability == context.reliability
              current_time == context.current_time
              result == propagate_memory(claim.id + 1, claim, "e3", personality, trust,
                                         direct[1], direct[2], consistency,
                                         emotional_state, reliability, current_time)
          IN  propRun' = [propRun EXCEPT
                            !.prev = claim,
                            !.claim = IF result.kind = "Accepted"
                                      THEN result.new_memory ELSE claim,
                            !.calls = @ + 1,
                            !.hops = IF result.kind = "Accepted" THEN @ + 1 ELSE @,
                            !.belief = belief_score(claim, personality, trust, direct[1],
                                                    direct[2], consistency,
                                                    emotional_state, reliability,
                                                    current_time),
                            !.openness = personality.openness,
                            !.result = result]
    /\ UNCHANGED <<coreRun, decayRun, evictRun, queueRun, hnswRun, ruleVars>>

PropNext == PropagateHop

PropSpec == PropInit /\ [][PropNext]_vars

(***************************************************************************)
(* The memory rule driven by game events, observations and ticks           *)
(***************************************************************************)
\* Witness, observer and participant lists of an event.
WitnessLists == {<<"e1">>, <<"e2", "e1">>}

\* Timestamps carried by events.
EventTicks == {0}

\* Ticks handed to on_tick, all 100 game-days after the events: a multiple of
\* every period, of none, of 60 only, and of 10 000 only.
TickInputs == {7200000, 7200007, 7200060, 7210000}

GameEvent(kind, a, b, witnesses, outcome, fairness, emotional_valence, importance, timestamp) ==
    [kind |-> kind, a |-> a, b |-> b, witnesses |-> witnesses, outcome |-> outcome,
     perceived_fairness |-> fairness, emotional_valence |-> emotional_valence,
     importance |-> importance, timestamp |-> timestamp]

\* The events handed to process_game_event, one family per variant.
GameEvents ==
    UNION {
      {GameEvent(k, a, None, w, None, 0, 0, 0, t) :
          k \in {"Death", "Arrival", "QuestEvent"}, a \in Entities,
          w \in WitnessLists, t \in EventTicks},
      {GameEvent(k, a, b, w, None, 0, 0, 0, t) :
          k \in {"Harmed", "Helped"}, a \in Entities, b \in Entities,
          w \in WitnessLists, t \in EventTicks},
      {GameEvent("Combat", a, b, w, o, 0, 0, 0, t) :
          a \in Entities, b \in Entities, w \in WitnessLists,
          o \in {"AttackerWon", "DefenderWon"}, t \in EventTicks},
      {GameEvent("Trade", a, b, <<>>, None, f, 0, 0, t) :
          a \in Entities, b \in Entities, f \in {-100}, t \in EventTicks},
      {GameEvent("Dialogue", a, b, <<>>, None, 0, 0, 0, t) :
          a \in Entities, b \in Entities, t \in EventTicks},
      {GameEvent("Custom", None, None, w, None, 0, v, 50, t) :
          w \in WitnessLists, v \in {0, 90}, t \in EventTicks}}

\* The events handed to observe.
ObservedEvents ==
    [kind : {"FirstMeeting", "Dialogue"}, participants : WitnessLists,
     emotional_valence : {10, -90}, importance : {20}, timestamp : EventTicks]

\* The mutable part of the rule as the handlers take it.
Rule == [banks |-> banks, boards |-> reputation_boards, next_id |-> next_id]

MemIds(bank, v) == {VariantSeq(bank, v)[i].id : i \in DOMAIN VariantSeq(bank, v)}

\* The memories of before that after no longer holds.
Dropped(before, after) ==
    {x \in [entity : DOMAIN before, variant : Variants, id : 1..MaxIds] :
        /\ x.id \in MemIds(before[x.entity], x.variant)
        /\ \/ x.entity \notin DOMAIN after
           \/ x.id \notin MemIds(after[x.entity], x.variant)}

RECURSIVE SumContributors(_)
SumContributors(entries) ==
    IF entries = <<>> THEN 0
    ELSE Head(entries).contributor_count + SumContributors(Tail(entries))

\* Sentiment reports and deeds held by the boards.
BoardLoad(boards) ==
    LET Load(s) == SumContributors(boards[s].entries) + Len(boards[s].notable_deeds)
    IN  IF "s1" \in DOMAIN boards THEN Load("s1") ELSE 0

\* The rule after a call that left it as r; at most MaxIds memories are ever
\* created and the boards hold at most MaxReports reports and deeds.  Every
\* event below creates a memory, so an event action is disabled once MaxIds
\* are handed out.
Returns(result, op) ==
    \E r \in {result} :
        /\ r.next_id <= MaxIds + 1
        /\ BoardLoad(r.boards) <= MaxReports
        /\ banks' = r.banks
        /\ reputation_boards' = r.boards
        /\ next_id' = r.next_id
        /\ lastOp' = [NoOp(op) EXCEPT !.dropped = Dropped(banks, r.banks)]

Init ==
    /\ decayRun = DecayIdle
    /\ evictRun = EvictIdle
    /\ OthersIdle
    /\ MemoryRule_new
    /\ rule_config \in Configs

OnDeath ==
    /\ next_id <= MaxIds
    /\ \E deceased \in Entities, killer \in Entities \cup {None},
          witnesses \in WitnessLists, settlement \in Settlements \cup {None},
          timestamp \in EventTicks :
          Returns(on_death(Rule, deceased, killer, witnesses, settlement, timestamp),
                  "event")
    /\ UNCHANGED <<coreRun, passVars, personalities, rule_config, rule_current_tick>>

OnTheft ==
    /\ next_id <= MaxIds
    /\ \E thief \in Entities, witnesses \in WitnessLists,
          settlement \in Settlements \cup {None}, timestamp \in EventTicks :
          Returns(on_theft(Rule, thief, witnesses, settlement, timestamp), "event")
    /\ UNCHANGED <<coreRun, passVars, personalities, rule_config, rule_current_tick>>

OnHelped ==
    /\ next_id <= MaxIds
    /\ \E helped \in Entities, helper \in Entities, witnesses \in WitnessLists,
          settlement \in Settlements \cup {None}, timestamp \in EventTicks :
          Returns(on_helped(Rule, helped, helper, witnesses, settlement, timestamp),
                  "event")
    /\ UNCHANGED <<coreRun, passVars, personalities, rule_config, rule_current_tick>>

OnTrade ==
    /\ next_id <= MaxIds
    /\ \E buyer \in Entities, seller \in Entities, fairness \in {-100, 50},
          timestamp \in EventTicks :
          Returns(on_trade(Rule, buyer, seller, fairness, timestamp), "event")
    /\ UNCHANGED <<coreRun, passVars, personalities, rule_config, rule_current_tick>>

OnCombat ==
    /\ next_id <= MaxIds
    /\ \E attacker \in Entities, defender \in Entities, attacker_won \in BOOLEAN,
          witnesses \in WitnessLists, settlement \in Settlements \cup {None},
          timestamp \in EventTicks :
          Returns(on_combat(Rule, attacker, defender, attacker_won, witnesses,
                            settlement, timestamp), "event")
    /\ UNCHANGED <<coreRun, passVars, personalities, rule_config, rule_current_tick>>

ProcessGameEvent ==
    /\ next_id <= MaxIds
    /\ \E event \in GameEvents, settlement \in Settlements \cup {None} :
          Returns(process_game_event(Rule, event, settlement), "event")
    /\ UNCHANGED <<coreRun, passVars, personalities, rule_config, rule_current_tick>>

Observe ==
    /\ next_id <= MaxIds
    /\ \E event \in ObservedEvents, observer \in Entities,
          known_entities \in {{}, Entities} :
          Returns(observe(Rule, event, observer, known_entities), "observe")
    /\ UNCHANGED <<coreRun, passVars, personalities, rule_config, rule_current_tick>>

\* A caller pushing onto one of the public sequences of e1's bank that no
\* handler above fills (semantic, procedural, reflective).
BankPush ==
    /\ next_id <= MaxIds
    /\ \E entity \in {"e1"}, v \in {"semantic", "procedural", "reflective"},
          timestamp \in EventTicks :
          LET bs == bank_mut(banks, entity)
              mem == [id |-> next_id, created_at |-> timestamp]
              pushed == CASE v = "semantic" ->
                               [bs EXCEPT ![entity].semantic = Append(@, mem)]
                          [] v = "procedural" ->
                               [bs EXCEPT ![entity].procedural = Append(@, mem)]
                          [] v = "reflective" ->
                               [bs EXCEPT ![entity].reflective = Append(@, mem)]
          IN  Returns([Rule EXCEPT !.banks = pushed, !.next_id = @ + 1], "push")
    /\ UNCHANGED <<coreRun, passVars, personalities, rule_config, rule_current_tick>>

\* on_tick with a tick later than the last one.
OnTick ==
    /\ \E tick \in TickInputs :
          /\ tick > rule_current_tick
          /\ rule_current_tick' = tick
          /\ Returns(on_tick(Rule, rule_config, tick), "on_tick")
    /\ UNCHANGED <<coreRun, passVars, personalities, rule_config>>

\* on_tick as above, with its reflection check on record: should_reflect is
\* true for the banks of reflecting.
OnTickReflecting ==
    /\ \E tick \in TickInputs :
          /\ tick > rule_current_tick
          /\ rule_current_tick' = tick
          /\ \E reflecting \in should_reflect_outcomes(banks, tick) :
             \E r \in {on_tick(Rule, rule_config, tick)} :
                /\ banks' = r.banks
                /\ reputation_boards' = r.boards
                /\ next_id' = r.next_id
                /\ lastOp' = [op |-> "on_tick",
                              dropped |-> Dropped(banks, r.banks),
                              reflecting |-> reflecting,
                              reflection_jobs |->
                                  on_tick_reflection_jobs(banks, tick, reflecting)]
    /\ UNCHANGED <<coreRun, passVars, personalities, rule_config>>

\* systems.rs enforce_limits on one entity's bank.
EnforceLimits ==
    /\ \E entity \in DOMAIN banks :
          Returns([Rule EXCEPT !.banks[entity] = enforce_limits(@, rule_config)],
                  "enforce_limits")
    /\ UNCHANGED <<coreRun, passVars, personalities, rule_config, rule_current_tick>>

Next ==
    \/ OnDeath
    \/ OnTheft
    \/ OnHelped
    \/ OnTrade
    \/ OnCombat
    \/ ProcessGameEvent
    \/ Observe
    \/ BankPush
    \/ OnTick
    \/ EnforceLimits

Spec == Init /\ [][Next]_vars

\* The rule under observations, pushes and ticks, with the reflection check of
\* each tick on record.
ReflectNext ==
    \/ Observe
    \/ BankPush
    \/ OnTickReflecting

ReflectSpec == Init /\ [][ReflectNext]_vars

(***************************************************************************)
(* Properties of the decay pass                                            *)
(***************************************************************************)
\* Protected from decay: first meeting, or flashbulb (|valence| > 0.8).
DecayProtected(m) == m.is_first_meeting \/ Abs(m.emotional_valence) > 80

\* C1: a decay pass, at any timestamp and threshold, never removes an episodic
\* memory that is a first meeting or has |emotional_valence| > 0.8.
C1_ProtectedSurviveDecay ==
    decayRun.kind = "episodic" =>
        \A i \in DOMAIN decayRun.input :
            DecayProtected(decayRun.input[i]) =>
                decayRun.input[i] \in Range(decayRun.after)

\* A pass has run in which a protected memory whose retention is not above the
\* threshold was kept while an unprotected one was removed.
C1_Witness ==
    /\ decayRun.kind = "episodic"
    /\ decayRun.passes >= 1
    /\ Len(decayRun.after) < Len(decayRun.input)
    /\ \E i \in DOMAIN decayRun.input :
          /\ DecayProtected(decayRun.input[i])
          /\ episodic_retention(decayRun.input[i], decayRun.now) <= decayRun.rate
          /\ decayRun.input[i] \in Range(decayRun.after)

\* C2: after a decay pass an unprotected episodic memory is still present iff
\* its retention at the pass's timestamp is strictly above decay_rate.
C2_UnprotectedKeptIffRetained ==
    (decayRun.kind = "episodic" /\ decayRun.passes >= 1) =>
        \A i \in DOMAIN decayRun.before :
            ~DecayProtected(decayRun.before[i]) =>
                (decayRun.before[i] \in Range(decayRun.after)
                    <=> episodic_retention(decayRun.before[i], decayRun.now) > decayRun.rate)

\* A pass has removed an unprotected memory whose retention equals the
\* threshold exactly.
C2_Witness ==
    /\ decayRun.kind = "episodic"
    /\ decayRun.passes = 1
    /\ \E i \in DOMAIN decayRun.before :
          /\ ~DecayProtected(decayRun.before[i])
          /\ decayRun.rate > 0
          /\ episodic_retention(decayRun.before[i], decayRun.now) = decayRun.rate
          /\ decayRun.before[i] \notin Range(decayRun.after)

\* C3: every decay pass, episodic or social, leaves a sequence no longer than
\* before that contains only memories that were already in it.
C3_DecayNeverGrows ==
    decayRun.kind \in {"episodic", "social"} =>
        /\ Len(decayRun.after) <= Len(decayRun.before)
        /\ Range(decayRun.after) \subseteq Range(decayRun.before)
        /\ Len(decayRun.after) <= Len(decayRun.input)
        /\ Range(decayRun.after) \subseteq Range(decayRun.input)

\* A pass over two memories has removed one and kept the other.
C3_Witness ==
    /\ decayRun.kind = "episodic"
    /\ decayRun.passes = 1
    /\ Len(decayRun.before) = 2
    /\ Len(decayRun.after) = 1

\* C4: a second decay pass with the same timestamp and config leaves the
\* sequence exactly as the first pass left it.
C4_DecayIdempotent ==
    decayRun.kind \in {"episodic", "social"} /\ decayRun.passes = 2 =>
        decayRun.after = decayRun.before

\* Two passes have run, the first of which removed something and kept
\* something.
C4_Witness ==
    /\ decayRun.kind = "episodic"
    /\ decayRun.passes = 2
    /\ Len(decayRun.before) < Len(decayRun.input)
    /\ Len(decayRun.after) >= 1

(***************************************************************************)
(* Properties of the eviction pass                                         *)
(***************************************************************************)
\* Protected from eviction under config: eviction_score is f64::MAX.
EvictProtected(m, config) ==
    \/ m.is_first_meeting /\ config.protect_first_meeting
    \/ Abs(m.emotional_valence) > config.protect_emotional_threshold

\* C7: in every eviction pass, every protected episodic memory of the input
\* ends up in the retained set, never in the cold-storage or archive hand-off.
C7_ProtectedAlwaysRetained ==
    (evictRun.kind = "episodic" /\ evictRun.done) =>
        \A i \in DOMAIN evictRun.input :
            EvictProtected(evictRun.input[i], evictRun.config) =>
                evictRun.input[i] \in Range(evictRun.result.retained)

\* Number of input memories classified Hot or Warm.
HotWarmCount ==
    Cardinality({i \in DOMAIN evictRun.input :
        classify_ring(evictRun.input[i].tick, evictRun.current_tick,
                      evictRun.ticks_per_hour, evictRun.config) \in {"Hot", "Warm"}})

\* C8: after an eviction pass the retained set holds at most max_in_memory
\* memories: all Hot and Warm memories when they number at most
\* max_in_memory, otherwise exactly max_in_memory of them, the surplus having
\* gone to the cold-storage hand-off.
C8_RetainedWithinCapacity ==
    (evictRun.kind = "episodic" /\ evictRun.done) =>
        LET r == evictRun.result
            hotwarm == {evictRun.input[i] : i \in
                          {j \in DOMAIN evictRun.input :
                              classify_ring(evictRun.input[j].tick, evictRun.current_tick,
                                            evictRun.ticks_per_hour, evictRun.config)
                                  \in {"Hot", "Warm"}}}
        IN  /\ Len(r.retained) <= evictRun.max_in_memory
            /\ Range(r.retained) \subseteq hotwarm
            /\ Cardinality(Range(r.retained)) = Len(r.retained)
            /\ HotWarmCount <= evictRun.max_in_memory => Range(r.retained) = hotwarm
            /\ HotWarmCount > evictRun.max_in_memory =>
                  /\ Len(r.retained) = evictRun.max_in_memory
                  /\ hotwarm \ Range(r.retained) \subseteq Range(r.to_cold_storage)

\* A pass has spilled: more Hot and Warm memories than capacity, capacity of
\* them retained.
C8_Witness ==
    /\ evictRun.kind = "episodic"
    /\ evictRun.done
    /\ evictRun.max_in_memory >= 1
    /\ HotWarmCount > evictRun.max_in_memory
    /\ Len(evictRun.result.retained) = evictRun.max_in_memory
    /\ Len(evictRun.result.to_cold_storage) >= 2

(***************************************************************************)
(* Properties of the memory rule                                           *)
(***************************************************************************)
\* s is a prefix of t.
IsPrefix(s, t) == Len(s) <= Len(t) /\ SubSeq(t, 1, Len(s)) = s

\* C5: under any sequence of game events and on_tick calls, a flashbulb or
\* first-meeting episodic memory stored in a bank is still in that bank after
\* every step: neither the decay pass nor limit enforcement removes it.
C5_ProtectedNeverRemoved ==
    [][\A e \in DOMAIN banks :
          \A i \in DOMAIN banks[e].episodic :
              DecayProtected(banks[e].episodic[i]) =>
                  /\ e \in DOMAIN banks'
                  /\ banks[e].episodic[i] \in Range(banks'[e].episodic)]_vars

\* C6: every event handled leaves each variant sequence of every bank as a
\* prefix of the same sequence afterwards, and a memory leaves a bank only in
\* on_tick (decay, limits) or enforce_limits.
C6_CreationAppendOnly ==
    [][/\ lastOp'.op \in {"event", "observe", "push"} =>
            /\ DOMAIN banks \subseteq DOMAIN banks'
            /\ \A e \in DOMAIN banks :
                  \A v \in Variants :
                      IsPrefix(VariantSeq(banks[e], v), VariantSeq(banks'[e], v))
       /\ Dropped(banks, banks') # {} =>
            lastOp'.op \in {"on_tick", "enforce_limits"}]_vars

\* An event or observation has appended to an episodic sequence that already
\* held a memory.
C6_Witness ==
    /\ lastOp.op \in {"event", "observe"}
    /\ \E e \in DOMAIN banks :
          /\ Len(banks[e].episodic) = 2
          /\ banks[e].episodic[1].id = 1
          /\ banks[e].episodic[2].id = 2

\* C9: on_tick(t) runs the decay pass on every bank iff t is a multiple of 60,
\* limit enforcement iff t is a multiple of 300 and reputation decay on every
\* board iff t is a multiple of 10 000; on a tick that is a multiple of none
\* no bank and no board changes.
C9_PeriodicActionsOnTheirTicks ==
    [][lastOp'.op = "on_tick" =>
          LET t == rule_current_tick'
              rate == rule_config.decay_rate
              Decayed(b) ==
                  [b EXCEPT !.episodic = decay_episodic_memories(@, t, rate),
                            !.social = decay_social_memories(@, t, rate)]
              Limited(b) ==
                  [b EXCEPT
                     !.episodic = Truncate(@, rule_config.max_episodic_per_npc),
                     !.semantic = Truncate(@, rule_config.max_semantic_per_npc),
                     !.social = Truncate(@, rule_config.max_social_per_npc),
                     !.procedural = Truncate(@, rule_config.max_procedural_per_npc),
                     !.reflective = Truncate(@, rule_config.max_reflective_per_npc)]
          IN  /\ DOMAIN banks' = DOMAIN banks
              /\ DOMAIN reputation_boards' = DOMAIN reputation_boards
              /\ (t % 60 # 0 /\ t % 300 # 0) => banks' = banks
              /\ (t % 60 = 0 /\ t % 300 # 0) =>
                     \A e \in DOMAIN banks : banks'[e] = Decayed(banks[e])
              /\ (t % 60 = 0 /\ t % 300 = 0) =>
                     \A e \in DOMAIN banks : banks'[e] = Limited(Decayed(banks[e]))
              /\ t % 10000 # 0 => reputation_boards' = reputation_boards
              /\ t % 10000 = 0 =>
                     \A s \in DOMAIN reputation_boards :
                         reputation_boards'[s] =
                             decay_reputations(reputation_boards[s], 20, t)]_vars

\* on_tick on a multiple of 60 that is no multiple of 300 has removed a memory.
C9_Witness ==
    /\ lastOp.op = "on_tick"
    /\ rule_current_tick % 60 = 0
    /\ rule_current_tick % 300 # 0
    /\ lastOp.dropped # {}

\* C10: after on_tick at a multiple of 300 every bank's episodic, semantic,
\* social, procedural and reflective sequences hold at most the configured
\* per-variant maximum.
C10_WithinLimitsAfterEnforcement ==
    (lastOp.op = "on_tick" /\ rule_current_tick % 300 = 0) =>
        \A e \in DOMAIN banks :
            /\ Len(banks[e].episodic) <= rule_config.max_episodic_per_npc
            /\ Len(banks[e].semantic) <= rule_config.max_semantic_per_npc
            /\ Len(banks[e].social) <= rule_config.max_social_per_npc
            /\ Len(banks[e].procedural) <= rule_config.max_procedural_per_npc
            /\ Len(banks[e].reflective) <= rule_config.max_reflective_per_npc

\* on_tick at a multiple of 300 has cut a reflective sequence that was over
\* its maximum.
C10_Witness ==
    /\ lastOp.op = "on_tick"
    /\ rule_current_tick % 300 = 0
    /\ \E x \in lastOp.dropped :
          /\ x.variant = "reflective"
          /\ Len(banks[x.entity].reflective) = rule_config.max_reflective_per_npc

\* C11: at every tick that is a multiple of 5000, on_tick enqueues a
\* reflection job for exactly the banks for which should_reflect is true.
C11_ReflectionJobsEnqueued ==
    (lastOp.op = "on_tick" /\ rule_current_tick % 5000 = 0) =>
        lastOp.reflection_jobs = lastOp.reflecting

(***************************************************************************)
(* Gossip between two entities                                             *)
(***************************************************************************)
\* MemoryRule::personality: the stored traits, or the default ones.
personality(ps, entity) ==
    IF entity \in DOMAIN ps THEN ps[entity] ELSE DefaultPersonality

\* MemoryRule::set_personality.
set_personality(ps, entity, traits) ==
    [e \in DOMAIN ps \cup {entity} |-> IF e = entity THEN traits ELSE ps[e]]

\* candidates.sort_by(|a, b| b.sentiment.abs().partial_cmp(&a.sentiment.abs())):
\* a stable sort, strongest sentiment first.
RECURSIVE sort_by_abs_sentiment(_)
sort_by_abs_sentiment(seq) ==
    IF seq = <<>> THEN <<>>
    ELSE LET rest == sort_by_abs_sentiment(SubSeq(seq, 1, Len(seq) - 1))
             last == seq[Len(seq)]
             k == Cardinality({i \in DOMAIN rest :
                                  Abs(rest[i].sentiment) >= Abs(last.sentiment)})
         IN  SubSeq(rest, 1, k) \o <<last>> \o SubSeq(rest, k + 1, Len(rest))

\* Pieces of gossip shared per contact.
GossipPerContact == 2

\* The memories propagate_gossip iterates over: the first two of the speaker's
\* social memories, strongest sentiment first.
gossip_candidates(bs, speaker) ==
    IF speaker \in DOMAIN bs
    THEN Truncate(sort_by_abs_sentiment(bs[speaker].social), GossipPerContact)
    ELSE <<>>

\* The speaker's decision to share: gossip_prob > 0.5.
gossip_offered(speaker_personality, gossip) ==
    gossip_probability(speaker_personality, Abs(gossip.sentiment) * 10,
                       Abs(gossip.sentiment) * 8) > 500000

\* The propagate_memory call of the loop body.
gossip_result(r, listener, listener_personality, gossip, timestamp) ==
    propagate_memory(r.next_id, gossip, listener, listener_personality,
                     DivTrunc(gossip.trust_in_source * 8, 10), FALSE, <<>>, 70, 0, 70,
                     timestamp)

\* Mutant of gossip_push: the accepted memory goes to the front.
gossip_push_front(r, listener, new_memory) ==
    LET bs == bank_mut(r.banks, listener)
    IN  [r EXCEPT !.banks = [bs EXCEPT ![listener].social = <<new_memory>> \o @],
                  !.next_id = @ + 1]

\* rule.bank_mut(listener).social.push(new_memory)
gossip_push(r, listener, new_memory) ==
    LET bs == bank_mut(r.banks, listener)
    IN  [r EXCEPT !.banks = [bs EXCEPT ![listener].social = Append(@, new_memory)],
                  !.next_id = @ + 1]

\* One iteration of the loop of propagate_gossip.
gossip_share(r, speaker_personality, listener, listener_personality, gossip, timestamp) ==
    IF ~gossip_offered(speaker_personality, gossip) THEN r
    ELSE LET result == gossip_result(r, listener, listener_personality, gossip, timestamp)
         IN  IF result.kind = "Accepted"
             THEN gossip_push(r, listener, result.new_memory)
             ELSE r

RECURSIVE gossip_from(_, _, _, _, _, _, _)
gossip_from(r, i, candidates, speaker_personality, listener, listener_personality, timestamp) ==
    IF i > Len(candidates) THEN r
    ELSE gossip_from(gossip_share(r, speaker_personality, listener,
                                  listener_personality, candidates[i], timestamp),
                     i + 1, candidates, speaker_personality, listener,
                     listener_personality, timestamp)

\* propagate_gossip; r has the fields banks, personalities and next_id.
propagate_gossip(r, speaker, listener, timestamp) ==
    gossip_from(r, 1, gossip_candidates(r.banks, speaker),
                personality(r.personalities, speaker), listener,
                personality(r.personalities, listener), timestamp)

\* Social memories callers push onto a bank, and MemoryIds handed out.
MaxRumours == 2

MaxGossipIds == 5

\* Traits of a talkative, credulous and open entity: every factor at 1.0.
Talkative == [credulity |-> 100, openness |-> 100, gossip_tendency |-> 100]

\* Rumours pushed onto a bank: trust, depth and the sentiment set on them.
Rumours ==
    { [trust_in_source |-> 100, propagation_depth |-> 0, sentiment |-> -80],
      [trust_in_source |-> 100, propagation_depth |-> 4, sentiment |-> -90],
      [trust_in_source |-> 10, propagation_depth |-> 0, sentiment |-> 30] }

GossipTicks == {0}

\* The entities callers push rumours onto; e1 learns of the theft it sees.
Gossipers == {"e2"}

GossipIdle == [kind |-> "gossip", speaker |-> None, listener |-> None,
               offered |-> {}, shared |-> {}, pushed |-> 0]

GossipRule ==
    [banks |-> banks, boards |-> reputation_boards, next_id |-> next_id,
     personalities |-> personalities]

GossipInit ==
    /\ decayRun = DecayIdle
    /\ evictRun = EvictIdle
    /\ queueRun = QueueIdle
    /\ hnswRun = HnswIdle
    /\ coreRun = CoreIdle
    /\ propRun = GossipIdle
    /\ MemoryRule_new
    /\ rule_config = DefaultConfig

\* rule.set_personality(entity, traits), called when the entity is first
\* loaded: before it has a bank.
SetPersonality ==
    /\ \E entity \in Entities \ DOMAIN banks :
          personalities' = set_personality(personalities, entity, Talkative)
    /\ lastOp' = NoOp("set_personality")
    /\ UNCHANGED <<coreRun, decayRun, evictRun, queueRun, hnswRun, propRun, banks,
                   reputation_boards, rule_config, rule_current_tick, next_id>>

\* A caller building a SocialMemory, setting its sentiment and pushing it onto
\* the entity's social sequence.
PushRumour ==
    /\ propRun.pushed < MaxRumours
    /\ next_id <= MaxGossipIds
    /\ \E entity \in Gossipers, rumour \in Rumours :
          LET social == [SocialMemory_new(next_id, "e1", "e2", rumour.trust_in_source,
                                          rumour.propagation_depth, 0)
                           EXCEPT !.sentiment = rumour.sentiment]
              bs == bank_mut(banks, entity)
          IN  banks' = [bs EXCEPT ![entity].social = Append(@, social)]
    /\ next_id' = next_id + 1
    /\ propRun' = [propRun EXCEPT !.pushed = @ + 1]
    /\ lastOp' = NoOp("push")
    /\ UNCHANGED <<coreRun, decayRun, evictRun, queueRun, hnswRun, personalities,
                   reputation_boards, rule_config, rule_current_tick>>

\* A theft seen by e1 in the settlement, before any rumour is around: the
\* first report on its board.
GossipOnTheft ==
    /\ banks = EmptyMap
    /\ reputation_boards = EmptyMap
    /\ \E r \in {on_theft(GossipRule, "e2", <<"e1">>, "s1", 0)} :
          /\ banks' = r.banks
          /\ reputation_boards' = r.boards
          /\ next_id' = r.next_id
    /\ lastOp' = NoOp("event")
    /\ UNCHANGED <<coreRun, decayRun, evictRun, queueRun, hnswRun, propRun, personalities,
                   rule_config, rule_current_tick>>

\* The candidates the speaker decides to share.
Offered(r, speaker) ==
    {m \in Range(gossip_candidates(r.banks, speaker)) :
        gossip_offered(personality(r.personalities, speaker), m)}

PropagateGossip ==
    /\ \E speaker \in Entities, listener \in Entities, timestamp \in GossipTicks :
          LET r == propagate_gossip(GossipRule, speaker, listener, timestamp)
              offered == Offered(GossipRule, speaker)
          IN  /\ r.next_id <= MaxGossipIds + 1
              /\ banks' = r.banks
              /\ next_id' = r.next_id
              /\ reputation_boards' = r.boards
              /\ personalities' = r.personalities
              /\ propRun' = [propRun EXCEPT
                               !.speaker = speaker,
                               !.listener = listener,
                               !.offered = {m.id : m \in offered},
                               !.shared =
                                   {m.id : m \in
                                       {g \in offered :
                                           gossip_result(GossipRule, listener,
                                               personality(personalities, listener),
                                               g, timestamp).kind = "Accepted"}}]
    /\ lastOp' = NoOp("propagate_gossip")
    /\ UNCHANGED <<coreRun, decayRun, evictRun, queueRun, hnswRun, rule_config,
                   rule_current_tick>>

GossipNext == SetPersonality \/ PushRumour \/ GossipOnTheft \/ PropagateGossip

GossipSpec == GossipInit /\ [][GossipNext]_vars

(***************************************************************************)
(* queue.rs: the LLM request queue                                         *)
(***************************************************************************)
\* LlmPriority, by discriminant.
Background == 0

Low == 1

Medium == 2

High == 3

Urgent == 4

Critical == 5

\* Ord for QueuedRequest, a <= b: priority first, then the older request is
\* the greater one; two requests enqueued at the same instant compare equal.
request_le(a, b) ==
    \/ a.priority < b.priority
    \/ a.priority = b.priority /\ a.enqueued_at >= b.enqueued_at

\* QueuedRequest::is_expired at the instant now.
is_expired(request, now) == now - request.enqueued_at > request.deadline

SwapAt(data, i, j) ==
    [k \in DOMAIN data |-> IF k = i THEN data[j] ELSE IF k = j THEN data[i] ELSE data[k]]

\* BinaryHeap::sift_up on the array of the heap (the root is data[1], the
\* parent of data[p] is data[p \div 2]).
RECURSIVE sift_up(_, _, _)
sift_up(data, start, pos) ==
    IF pos > start /\ ~request_le(data[pos], data[pos \div 2])
    THEN sift_up(SwapAt(data, pos, pos \div 2), start, pos \div 2)
    ELSE data

\* The descent of BinaryHeap::sift_down_to_bottom: the hole follows the
\* greater child, the right one when the two compare equal.
RECURSIVE sift_down_hole(_, _)
sift_down_hole(data, pos) ==
    LET child == 2 * pos
    IN  IF child + 1 <= Len(data)
        THEN LET next == IF request_le(data[child], data[child + 1])
                         THEN child + 1 ELSE child
             IN  sift_down_hole(SwapAt(data, pos, next), next)
        ELSE IF child = Len(data)
        THEN [data |-> SwapAt(data, pos, child), pos |-> child]
        ELSE [data |-> data, pos |-> pos]

sift_down_to_bottom(data, pos) ==
    LET bottom == sift_down_hole(data, pos)
    IN  sift_up(bottom.data, pos, bottom.pos)

\* BinaryHeap::push
heap_push(data, request) == sift_up(Append(data, request), 1, Len(data) + 1)

\* BinaryHeap::pop on a heap that is not empty: the item and the heap left.
heap_pop(data) ==
    LET last == data[Len(data)]
        rest == SubSeq(data, 1, Len(data) - 1)
    IN  IF rest = <<>> THEN [item |-> last, heap |-> <<>>]
        ELSE [item |-> rest[1],
              heap |-> sift_down_to_bottom([rest EXCEPT ![1] = last], 1)]

\* LlmQueue::new
LlmQueue_new(max_queue_size) ==
    [heap |-> <<>>, next_id |-> 0, max_queue_size |-> max_queue_size,
     total_enqueued |-> 0, total_dropped |-> 0, total_expired |-> 0]

\* Mutant of queue_full: the queue takes one request more.
queue_full_above(inner) == Len(inner.heap) > inner.max_queue_size

\* The back-pressure test of enqueue.
queue_full(inner) == Len(inner.heap) >= inner.max_queue_size

\* Mutant of enqueue_dropped: a dropped request still takes an id.
enqueue_dropped_takes_id(inner) ==
    [inner EXCEPT !.total_dropped = @ + 1, !.next_id = @ + 1]

\* Mutant of enqueue_dropped: a dropped request counts as enqueued too.
enqueue_dropped_counted(inner) ==
    [inner EXCEPT !.total_dropped = @ + 1, !.total_enqueued = @ + 1]

\* The branch of enqueue taken on a full queue.
enqueue_dropped(inner) == [inner EXCEPT !.total_dropped = @ + 1]

\* LlmQueue::enqueue at the instant now: the inner state and the Option
\* returned (<<>> for None, <<id>> for Some(id)).
enqueue(inner, priority, deadline, now) ==
    IF queue_full(inner) THEN [inner |-> enqueue_dropped(inner), result |-> <<>>]
    ELSE [inner |-> [inner EXCEPT
                       !.next_id = @ + 1,
                       !.total_enqueued = @ + 1,
                       !.heap = heap_push(@, [id |-> inner.next_id,
                                              priority |-> priority,
                                              enqueued_at |-> now,
                                              deadline |-> deadline])],
          result |-> <<inner.next_id>>]

\* Mutant of dequeue_skips: an expired request is returned like any other.
dequeue_skips_nothing(request, now) == FALSE

\* The test of the loop of dequeue.
dequeue_skips(request, now) == is_expired(request, now)

\* LlmQueue::dequeue at the instant now.
RECURSIVE dequeue(_, _)
dequeue(inner, now) ==
    IF inner.heap = <<>> THEN [inner |-> inner, result |-> <<>>]
    ELSE LET popped == heap_pop(inner.heap)
         IN  IF dequeue_skips(popped.item, now)
             THEN dequeue([inner EXCEPT !.heap = popped.heap,
                                        !.total_expired = @ + 1], now)
             ELSE [inner |-> [inner EXCEPT !.heap = popped.heap],
                   result |-> <<popped.item>>]

\* The first loop of purge_expired: the heap is emptied, the requests that
\* have not expired are kept in the order they were popped.
RECURSIVE purge_pop_all(_, _, _)
purge_pop_all(inner, valid, now) ==
    IF inner.heap = <<>> THEN [inner |-> inner, valid |-> valid]
    ELSE LET popped == heap_pop(inner.heap)
         IN  IF is_expired(popped.item, now)
             THEN purge_pop_all([inner EXCEPT !.heap = popped.heap,
                                              !.total_expired = @ + 1], valid, now)
             ELSE purge_pop_all([inner EXCEPT !.heap = popped.heap],
                                Append(valid, popped.item), now)

RECURSIVE push_all(_, _, _)
push_all(data, valid, i) ==
    IF i > Len(valid) THEN data
    ELSE push_all(heap_push(data, valid[i]), valid, i + 1)

\* LlmQueue::purge_expired at the instant now.
purge_expired(inner, now) ==
    LET emptied == purge_pop_all(inner, <<>>, now)
        after == [emptied.inner EXCEPT !.heap = push_all(<<>>, emptied.valid, 1)]
    IN  [inner |-> after, result |-> <<Len(inner.heap) - Len(after.heap)>>]

\* The max_queue_size of the queue.
MaxQueueSize == 3

\* The instants of the clock at which calls are made.
QueueInstants == {0, 1}

\* Calls of enqueue: one more than the queue holds.
MaxRequests == MaxQueueSize + 1

\* The handles on the queue: the one LlmQueue::new returns and a clone of it.
QueueHandles == {"queue", "clone"}

QueuePriorities == {Low, Critical}

\* Deadlines: over as soon as the clock moves, and not over at any instant.
QueueDeadlines == {0, 1}

\* The last call: its arguments, what it returned and how many requests it
\* counted as expired.
QueueLast(op, args, result, expired) ==
    [op |-> op, args |-> args, result |-> result, expired |-> expired]

QueueInit ==
    /\ decayRun = DecayIdle
    /\ evictRun = EvictIdle
    /\ propRun = PropIdle
    /\ hnswRun = HnswIdle
    /\ coreRun = CoreIdle
    /\ MemoryRule_new
    /\ rule_config = DefaultConfig
    /\ \E max_queue_size \in {MaxQueueSize} :
          queueRun = [kind |-> "queue", inner |-> LlmQueue_new(max_queue_size),
                      now |-> 0, handles |-> {"queue"},
                      returned |-> 0, refused |-> 0,
                      last |-> QueueLast("new", <<>>, <<>>, 0)]

\* One call through a handle; `returned` counts the requests dequeue has
\* handed out and `refused` the enqueue calls that returned None.
QueueStep(next, op, args) ==
    /\ queueRun' = [queueRun EXCEPT
                      !.inner = next.inner,
                      !.returned = IF op = "dequeue" /\ next.result # <<>>
                                   THEN @ + 1 ELSE @,
                      !.refused = IF op = "enqueue" /\ next.result = <<>>
                                  THEN @ + 1 ELSE @,
                      !.last = QueueLast(op, args, next.result,
                                         next.inner.total_expired
                                             - queueRun.inner.total_expired)]
    /\ UNCHANGED <<coreRun, decayRun, evictRun, propRun, hnswRun, ruleVars>>

\* Clone for LlmQueue: one more handle on the same inner state.
QueueClone ==
    /\ queueRun.kind = "queue"
    /\ \E handle \in QueueHandles \ queueRun.handles :
          queueRun' = [queueRun EXCEPT
                         !.handles = @ \cup {handle},
                         !.last = QueueLast("clone", <<>>, <<>>, 0)]
    /\ UNCHANGED <<coreRun, decayRun, evictRun, propRun, hnswRun, ruleVars>>

\* Time passing between two calls.
QueueTick ==
    /\ queueRun.kind = "queue"
    /\ queueRun.now + 1 \in QueueInstants
    /\ queueRun' = [queueRun EXCEPT
                      !.now = @ + 1,
                      !.last = QueueLast("tick", <<>>, <<>>, 0)]
    /\ UNCHANGED <<coreRun, decayRun, evictRun, propRun, hnswRun, ruleVars>>

\* The calls hold the mutex from their first statement to their last: each is
\* one step, whichever handle it goes through.
Enqueue ==
    /\ queueRun.kind = "queue"
    /\ queueRun.inner.total_enqueued + queueRun.inner.total_dropped < MaxRequests
    /\ \E handle \in queueRun.handles, priority \in QueuePriorities,
          deadline \in QueueDeadlines :
          QueueStep(enqueue(queueRun.inner, priority, deadline, queueRun.now),
                    "enqueue", <<priority, deadline>>)

Dequeue ==
    /\ queueRun.kind = "queue"
    /\ \E handle \in queueRun.handles :
          QueueStep(dequeue(queueRun.inner, queueRun.now), "dequeue", <<>>)

PurgeExpired ==
    /\ queueRun.kind = "queue"
    /\ \E handle \in queueRun.handles :
          QueueStep(purge_expired(queueRun.inner, queueRun.now), "purge_expired",
                    <<>>)

QueueNext == QueueClone \/ QueueTick \/ Enqueue \/ Dequeue \/ PurgeExpired

QueueSpec == QueueInit /\ [][QueueNext]_vars

(***************************************************************************)
(* hnsw.rs: the nearest-neighbour index                                    *)
(***************************************************************************)
\* Most points inserted into an index.
MaxPoints == 3

\* The square root of a sum of squares (exact for the embeddings used here).
ISqrt(n) == CHOOSE r \in 0..n : r * r <= n /\ (r + 1) * (r + 1) > n

RECURSIVE SumSquares(_)
SumSquares(v) == IF v = <<>> THEN 0 ELSE Head(v) * Head(v) + SumSquares(Tail(v))

\* HnswPoint::from_embedding: the vector scaled to unit length, in
\* thousandths; a zero vector is divided by f32::EPSILON and stays zero.
from_embedding(embedding) ==
    LET norm == ISqrt(SumSquares(embedding))
    IN  [i \in DOMAIN embedding |->
            IF norm = 0 THEN 0 ELSE DivTrunc(embedding[i] * 1000, norm)]

RECURSIVE Dot(_, _)
Dot(a, b) == IF a = <<>> THEN 0 ELSE Head(a) * Head(b) + Dot(Tail(a), Tail(b))

\* HnswPoint::distance, in millionths: 1 - dot, at least 0, and 1 for
\* vectors of different lengths.
distance(a, b) ==
    IF Len(a) # Len(b) THEN 1000000 ELSE Max(1000000 - Dot(a, b), 0)

HnswResult(memory_id, dist) ==
    [memory_id |-> memory_id, distance |-> dist, similarity |-> 1000000 - dist]

\* HnswIndex::new (the fields search, insert, build, remove and clear use).
HnswIndex_new ==
    [pending_points |-> <<>>, pending_values |-> <<>>, map |-> <<>>, dirty_count |-> 0]

\* HnswIndex::insert
insert(index, memory_id, embedding) ==
    [index EXCEPT !.pending_points = Append(@, from_embedding(embedding)),
                  !.pending_values = Append(@, memory_id),
                  !.dirty_count = @ + 1]

\* HnswIndex::build: the map is built from clones of the pending vectors.
build(index) ==
    IF index.pending_points = <<>> THEN index
    ELSE [index EXCEPT
            !.map = << [points |-> index.pending_points,
                        values |-> index.pending_values] >>,
            !.dirty_count = 0]

\* scored.sort_by(|a, b| a.0.partial_cmp(&b.0)): a stable sort of
\* (distance, index) pairs, nearest first.
RECURSIVE sort_by_distance(_)
sort_by_distance(scored) ==
    IF scored = <<>> THEN <<>>
    ELSE LET rest == sort_by_distance(SubSeq(scored, 1, Len(scored) - 1))
             last == scored[Len(scored)]
             k == Cardinality({i \in DOMAIN rest : rest[i][1] <= last[1]})
         IN  SubSeq(rest, 1, k) \o <<last>> \o SubSeq(rest, k + 1, Len(rest))

\* The (distance, index) pairs of points, nearest to query first.
Scored(points, query) ==
    sort_by_distance([i \in DOMAIN points |-> <<distance(query, points[i]), i>>])

\* HnswIndex::brute_force_search
brute_force_search(index, query, k) ==
    LET scored == Truncate(Scored(index.pending_points, query), k)
    IN  [j \in DOMAIN scored |->
            HnswResult(index.pending_values[scored[j][2]], scored[j][1])]

\* map.search(&query_point, &mut search).take(k): the points the map was
\* built from, nearest first (a map this small is searched exhaustively).
map_search(map, query, k) ==
    LET scored == Truncate(Scored(map.points, query), k)
    IN  [j \in DOMAIN scored |-> HnswResult(map.values[scored[j][2]], scored[j][1])]

\* HnswIndex::search
search(index, query, k) ==
    LET query_point == from_embedding(query)
    IN  IF index.map # <<>> THEN map_search(index.map[1], query_point, k)
        ELSE brute_force_search(index, query_point, k)

\* Positions of memory_id in values, last first.
RECURSIVE swap_remove_all(_, _, _)
swap_remove_all(index, memory_id, i) ==
    IF i > Len(index.pending_values) THEN index
    ELSE IF index.pending_values[i] = memory_id
    THEN LET n == Len(index.pending_values)
             values == SubSeq([index.pending_values EXCEPT ![i] = index.pending_values[n]],
                              1, n - 1)
             points == SubSeq([index.pending_points EXCEPT ![i] = index.pending_points[n]],
                              1, n - 1)
         IN  swap_remove_all([index EXCEPT !.pending_values = values,
                                           !.pending_points = points,
                                           !.dirty_count = @ + 1],
                             memory_id, i)
    ELSE swap_remove_all(index, memory_id, i + 1)

\* HnswIndex::remove
remove(index, memory_id) == swap_remove_all(index, memory_id, 1)

\* HnswIndex::clear
clear(index) == HnswIndex_new

\* Embeddings inserted and searched for: two axes, a vector of length 5 and
\* the zero vector.
Embeddings == {<<1, 0>>, <<0, 1>>, <<3, 4>>, <<0, 0>>}

Queries == {<<1, 0>>, <<3, 4>>}

HnswLast(op, query, k, results) ==
    [op |-> op, query |-> query, k |-> k, results |-> results]

HnswInit ==
    /\ decayRun = DecayIdle
    /\ evictRun = EvictIdle
    /\ propRun = PropIdle
    /\ queueRun = QueueIdle
    /\ MemoryRule_new
    /\ rule_config = DefaultConfig
    /\ coreRun = CoreIdle
    /\ hnswRun = [kind |-> "hnsw", index |-> HnswIndex_new, inserted |-> 0,
                  last |-> HnswLast("new", <<>>, 0, <<>>)]

HnswStep(index, last) ==
    /\ hnswRun' = [hnswRun EXCEPT !.index = index, !.last = last]
    /\ UNCHANGED <<coreRun, decayRun, evictRun, propRun, queueRun, ruleVars>>

\* index.insert(MemoryId::new(), embedding): every id is a new one.
HnswInsert ==
    /\ hnswRun.kind = "hnsw"
    /\ hnswRun.inserted < MaxPoints
    /\ \E embedding \in Embeddings :
          /\ hnswRun' = [hnswRun EXCEPT
                           !.index = insert(@, hnswRun.inserted + 1, embedding),
                           !.inserted = @ + 1,
                           !.last = HnswLast("insert", <<>>, 0, <<>>)]
          /\ UNCHANGED <<coreRun, decayRun, evictRun, propRun, queueRun, ruleVars>>

HnswBuild ==
    /\ hnswRun.kind = "hnsw"
    /\ HnswStep(build(hnswRun.index), HnswLast("build", <<>>, 0, <<>>))

HnswSearch ==
    /\ hnswRun.kind = "hnsw"
    /\ \E query \in Queries, k \in 0..(MaxPoints + 1) :
          HnswStep(hnswRun.index,
                   HnswLast("search", query, k, search(hnswRun.index, query, k)))

HnswRemove ==
    /\ hnswRun.kind = "hnsw"
    /\ \E memory_id \in 1..hnswRun.inserted :
          HnswStep(remove(hnswRun.index, memory_id), HnswLast("remove", <<>>, 0, <<>>))

HnswClear ==
    /\ hnswRun.kind = "hnsw"
    /\ HnswStep(clear(hnswRun.index), HnswLast("clear", <<>>, 0, <<>>))

HnswNext == HnswInsert \/ HnswBuild \/ HnswSearch \/ HnswRemove \/ HnswClear

HnswSpec == HnswInit /\ [][HnswNext]_vars

(***************************************************************************)
(* hnsw.rs: the rebuild policy over the life of an index                   *)
(***************************************************************************)
\* Mutant of needs_rebuild: a fifth of the points changed is already enough.
needs_rebuild_at_threshold(index) ==
    IF index.map = <<>> /\ index.pending_points # <<>> THEN TRUE
    ELSE IF Len(index.pending_points) = 0 THEN FALSE
    ELSE index.dirty_count * 5 >= Len(index.pending_points)

\* HnswIndex::needs_rebuild; dirty_count / total > 0.2 is compared as
\* dirty_count * 5 > total (for these small counts the f32 quotient of 1 and 5
\* is the f32 the literal 0.2 denotes).
needs_rebuild(index) ==
    IF index.map = <<>> /\ index.pending_points # <<>> THEN TRUE
    ELSE IF Len(index.pending_points) = 0 THEN FALSE
    ELSE index.dirty_count * 5 > Len(index.pending_points)

\* Most points inserted over the life of an index.
MaxLifePoints == 5

\* The ids a caller asks to remove.
RemovableIds == {1, 2}

LifeEmbedding == <<1, 0>>

LifeInit ==
    /\ decayRun = DecayIdle
    /\ evictRun = EvictIdle
    /\ propRun = PropIdle
    /\ queueRun = QueueIdle
    /\ MemoryRule_new
    /\ rule_config = DefaultConfig
    /\ coreRun = CoreIdle
    /\ hnswRun = [kind |-> "life", index |-> HnswIndex_new, inserted |-> 0,
                  changes |-> 0, removed |-> {}, purged |-> {},
                  last |-> HnswLast("new", <<>>, 0, <<>>)]

LifeFrame == UNCHANGED <<coreRun, decayRun, evictRun, propRun, queueRun, ruleVars>>

\* index.insert(MemoryId::new(), embedding)
LifeInsert ==
    /\ hnswRun.kind = "life"
    /\ hnswRun.inserted < MaxLifePoints
    /\ hnswRun' = [hnswRun EXCEPT
                     !.index = insert(@, hnswRun.inserted + 1, LifeEmbedding),
                     !.inserted = @ + 1,
                     !.changes = @ + 1,
                     !.last = HnswLast("insert", <<>>, 0, <<>>)]
    /\ LifeFrame

\* index.remove(memory_id) of an id the index holds.
LifeRemove ==
    /\ hnswRun.kind = "life"
    /\ \E memory_id \in RemovableIds \cap Range(hnswRun.index.pending_values) :
          hnswRun' = [hnswRun EXCEPT
                        !.index = remove(@, memory_id),
                        !.changes = @ + 1,
                        !.removed = @ \cup {memory_id},
                        !.last = HnswLast("remove", <<>>, 0, <<>>)]
    /\ LifeFrame

\* index.build(): whatever was removed before it has now been followed by a
\* build.
LifeBuild ==
    /\ hnswRun.kind = "life"
    /\ hnswRun' = [hnswRun EXCEPT
                     !.index = build(@),
                     !.changes = 0,
                     !.purged = @ \cup hnswRun.removed,
                     !.removed = {},
                     !.last = HnswLast("build", <<>>, 0, <<>>)]
    /\ LifeFrame

LifeClear ==
    /\ hnswRun.kind = "life"
    /\ hnswRun' = [hnswRun EXCEPT
                     !.index = clear(@),
                     !.last = HnswLast("clear", <<>>, 0, <<>>)]
    /\ LifeFrame

LifeSearch ==
    /\ hnswRun.kind = "life"
    /\ hnswRun' = [hnswRun EXCEPT
                     !.last = HnswLast("search", LifeEmbedding, MaxLifePoints,
                                       search(hnswRun.index, LifeEmbedding,
                                              MaxLifePoints))]
    /\ LifeFrame

LifeNext == LifeInsert \/ LifeRemove \/ LifeBuild \/ LifeClear \/ LifeSearch

LifeSpec == LifeInit /\ [][LifeNext]_vars

(***************************************************************************)
(* retrieval/mod.rs, retrieval/scoring.rs                                  *)
(* Weights and multipliers are in hundredths, factor scores and weighted   *)
(* contributions in millionths.                                            *)
(***************************************************************************)
\* RetrievalWeights::default
RetrievalWeights_default ==
    [recency |-> 20, relevance |-> 30, importance |-> 20, emotional |-> 20, social |-> 10]

\* RetrievalConfig::default (the fields retrieve reads).
RetrievalConfig_default == [top_k |-> 5, weights |-> RetrievalWeights_default]

\* PersonalityWeightOverrides::default
PersonalityWeightOverrides_default ==
    [recency_mult |-> 100, relevance_mult |-> 100, importance_mult |-> 100,
     emotional_mult |-> 100, social_mult |-> 100]

\* scoring::recency_score: exp(-0.05 * days since the memory's timestamp).
recency_score(memory, current_time) ==
    CASE memory.variant = "Episodic" ->
            ExpNegMicro((DeltaDaysMilli(current_time, memory.m.tick) * 50) \div 1000)
      [] memory.variant = "Social" ->
            ExpNegMicro((DeltaDaysMilli(current_time, memory.m.received_at) * 50) \div 1000)
      [] OTHER -> 800000

\* scoring::relevance_score: every memory here is as its constructor leaves
\* it, with no embedding, which scores the neutral 0.5.
relevance_score(memory, context_embedding) == 500000

\* scoring::importance_score
importance_score(memory) ==
    LET raw == CASE memory.variant = "Episodic" -> memory.m.importance
                 [] memory.variant = "Semantic" -> memory.m.confidence
                 [] memory.variant = "Emotional" -> memory.m.intensity
                 [] OTHER -> 50
    IN  Clamp(raw, 0, 100) * 10000

\* scoring::emotional_score
emotional_score(memory) ==
    CASE memory.variant = "Episodic" -> Abs(memory.m.emotional_valence) * 10000
      [] memory.variant = "Emotional" -> memory.m.intensity * 10000
      [] OTHER -> 100000

\* SocialMemory::chain_reliability times trust_in_source, in millionths.
social_score(memory) ==
    IF memory.variant = "Social"
    THEN (memory.m.trust_in_source * 10000) \div (1 + memory.m.propagation_depth)
    ELSE 0

\* scoring::compute_breakdown
compute_breakdown(memory, context_embedding, current_time, w_recency, w_relevance, w_importance, w_emotional, w_social) ==
    [recency |-> (w_recency * recency_score(memory, current_time)) \div 100,
     relevance |-> (w_relevance * relevance_score(memory, context_embedding)) \div 100,
     importance |-> (w_importance * importance_score(memory)) \div 100,
     emotional |-> (w_emotional * emotional_score(memory)) \div 100,
     social |-> (w_social * social_score(memory)) \div 100]

\* The closure retrieve maps over the memories.
RetrievalResult(memory, context_embedding, current_time, weights) ==
    LET breakdown == compute_breakdown(memory, context_embedding, current_time,
                                       weights.recency, weights.relevance,
                                       weights.importance, weights.emotional,
                                       weights.social)
    IN  [memory |-> memory,
         score |-> breakdown.recency + breakdown.relevance + breakdown.importance
                   + breakdown.emotional + breakdown.social,
         breakdown |-> breakdown]

\* Mutant of ResultBefore: the comparison the other way round.
ResultBeforeAscending(a, b) == a.score < b.score

\* The comparator of retrieve's sort: b.score.partial_cmp(&a.score) is Less.
ResultBefore(a, b) == a.score > b.score

RECURSIVE InsertResult(_, _)
InsertResult(sorted, x) ==
    IF sorted = <<>> THEN <<x>>
    ELSE IF ResultBefore(x, Head(sorted)) THEN <<x>> \o sorted
    ELSE <<Head(sorted)>> \o InsertResult(Tail(sorted), x)

\* results.sort_by(...): stable, descending by score.
RECURSIVE sort_results(_)
sort_results(results) ==
    IF results = <<>> THEN <<>>
    ELSE InsertResult(sort_results(SubSeq(results, 1, Len(results) - 1)),
                      results[Len(results)])

\* RetrievalEngine::retrieve; the personality weights are an unused parameter.
retrieve(config, context_embedding, memories, current_time, personality_weights) ==
    LET weights == config.weights
        top_k == config.top_k
        results == [i \in DOMAIN memories |->
                       RetrievalResult(memories[i], context_embedding, current_time,
                                       weights)]
    IN  Truncate(sort_results(results), top_k)

\* Most candidate memories passed to one retrieve call.
MaxCandidates == 6

RetrieveNow == 720000

\* A ten-day-old traumatic event, a fresh important one, and first-hand gossip.
CandidatePool ==
    {[variant |-> "Episodic", m |-> EpisodicMemory_new(1, 0, -100, 20)],
     [variant |-> "Episodic", m |-> EpisodicMemory_new(2, RetrieveNow, 0, 100)],
     [variant |-> "Social", m |-> SocialMemory_new(3, "e1", "e2", 90, 0, 0)]}

RetrieveConfigs ==
    {RetrievalConfig_default, [RetrievalConfig_default EXCEPT !.top_k = 2]}

\* None, or a sentimental character weighing emotion double.
RetrieveOverrides ==
    {<<>>, <<[PersonalityWeightOverrides_default EXCEPT !.emotional_mult = 200]>>}

RetrieveInit ==
    /\ decayRun = DecayIdle
    /\ evictRun = EvictIdle
    /\ propRun = PropIdle
    /\ queueRun = QueueIdle
    /\ hnswRun = HnswIdle
    /\ MemoryRule_new
    /\ rule_config = DefaultConfig
    /\ \E config \in RetrieveConfigs, memories \in SeqsUpTo(CandidatePool, MaxCandidates),
          personality_weights \in RetrieveOverrides :
          coreRun = [kind |-> "retrieve", config |-> config, memories |-> memories,
                     personality_weights |-> personality_weights, called |-> FALSE,
                     results |-> <<>>]

\* engine.retrieve(&context, &memories, &now, personality_weights)
Retrieve ==
    /\ coreRun.kind = "retrieve"
    /\ ~coreRun.called
    /\ coreRun' = [coreRun EXCEPT
                     !.called = TRUE,
                     !.results = retrieve(coreRun.config, <<1, 0>>, coreRun.memories,
                                          RetrieveNow, coreRun.personality_weights)]
    /\ UNCHANGED <<decayRun, evictRun, propRun, queueRun, hnswRun, ruleVars>>

RetrieveNext == Retrieve

RetrieveSpec == RetrieveInit /\ [][RetrieveNext]_vars

(***************************************************************************)
(* reputation.rs: one board under reports and decay                        *)
(***************************************************************************)
\* max_entries of the board under test (the field is public; 100 by default).
MaxEntries == 2

\* Most report_sentiment calls in one run: enough to overfill the board
\* after a second report about one entity.
MaxBoardReports == MaxEntries + 2

\* Most decay_reputations calls in one run.
MaxBoardDecays == 2

\* One entity more than the board can hold.
BoardEntities == 1..(MaxEntries + 1)

\* Sentiments as callers pass them, some outside [-1, 1].
BoardSentiments == {-2000000, 400000}

\* Decay rates per game-day, in thousandths.
BoardRates == {50}

\* Game-days between one decay and the calls before it.
BoardDays == {0, 40}

\* What the callers did about one entity: the reports made, the sum of their
\* clamped sentiments, and whether its entry was never decayed or pruned.
NoReports == [count |-> 0, sum |-> 0, clean |-> TRUE]

EntryEntities(entries) == {entries[i].entity : i \in DOMAIN entries}

BoardLast(op, before, pushed, rate, t) ==
    [op |-> op, before |-> before, pushed |-> pushed, rate |-> rate, t |-> t]

BoardInit ==
    /\ decayRun = DecayIdle
    /\ evictRun = EvictIdle
    /\ propRun = PropIdle
    /\ queueRun = QueueIdle
    /\ hnswRun = HnswIdle
    /\ MemoryRule_new
    /\ rule_config = DefaultConfig
    /\ coreRun = [kind |-> "board",
                  board |-> [ReputationBoard_new(0) EXCEPT !.max_entries = MaxEntries],
                  now |-> 0, reports |-> 0, decays |-> 0,
                  hist |-> [e \in BoardEntities |-> NoReports],
                  last |-> BoardLast("new", <<>>, <<>>, 0, 0)]

CoreFrame == UNCHANGED <<decayRun, evictRun, propRun, queueRun, hnswRun, ruleVars>>

\* board.report_sentiment(entity, sentiment, now) about an entity already
\* reported or the next one never reported.
BoardReport ==
    /\ coreRun.kind = "board"
    /\ coreRun.reports < MaxBoardReports
    /\ \E entity \in BoardEntities, sentiment \in BoardSentiments :
          /\ \A e \in 1..(entity - 1) : coreRun.hist[e].count > 0
          /\ LET board == coreRun.board
                 after == report_sentiment(board, entity, sentiment, coreRun.now)
                 new == entity \notin EntryEntities(board.entries)
                 gone == (EntryEntities(board.entries) \cup {entity})
                            \ EntryEntities(after.entries)
             IN  coreRun' = [coreRun EXCEPT
                    !.board = after,
                    !.reports = @ + 1,
                    !.hist = [e \in BoardEntities |->
                                IF e = entity
                                THEN [count |-> IF new THEN 1 ELSE @[e].count + 1,
                                      sum |-> IF new
                                              THEN Clamp(sentiment, -1000000, 1000000)
                                              ELSE @[e].sum
                                                   + Clamp(sentiment, -1000000, 1000000),
                                      clean |-> IF new THEN e \notin gone
                                                ELSE @[e].clean]
                                ELSE IF e \in gone THEN [@[e] EXCEPT !.clean = FALSE]
                                ELSE @[e]],
                    !.last = BoardLast("report", board.entries,
                                       IF new
                                       THEN Append(board.entries,
                                                   [entity |-> entity,
                                                    score |-> Clamp(sentiment, -1000000,
                                                                    1000000),
                                                    contributor_count |-> 1,
                                                    last_updated |-> coreRun.now])
                                       ELSE <<>>,
                                       0, coreRun.now)]
    /\ CoreFrame

\* board.decay_reputations(rate, t), t some days after the calls before it.
BoardDecay ==
    /\ coreRun.kind = "board"
    /\ coreRun.decays < MaxBoardDecays
    /\ \E decay_rate \in BoardRates, days \in BoardDays :
          LET t == coreRun.now + days * TicksPerDay
              board == coreRun.board
          IN  coreRun' = [coreRun EXCEPT
                 !.board = decay_reputations(board, decay_rate, t),
                 !.now = t,
                 !.decays = @ + 1,
                 !.hist = [e \in BoardEntities |->
                             IF e \in EntryEntities(board.entries)
                             THEN [@[e] EXCEPT !.clean = FALSE]
                             ELSE @[e]],
                 !.last = BoardLast("decay", board.entries, <<>>, decay_rate, t)]
    /\ CoreFrame

BoardNext == BoardReport \/ BoardDecay

BoardSpec == BoardInit /\ [][BoardNext]_vars

(***************************************************************************)
(* reputation.rs: the notable deeds of one board                           *)
(***************************************************************************)
\* max_deeds of the board under test (the field is public; 20 by default).
MaxDeeds == 2

\* Deeds recorded beyond max_deeds in one run.
MaxExtraDeeds == 2

DeedValences == {-90, -50, 10, 50, 80}

DeedInit ==
    /\ decayRun = DecayIdle
    /\ evictRun = EvictIdle
    /\ propRun = PropIdle
    /\ queueRun = QueueIdle
    /\ hnswRun = HnswIdle
    /\ MemoryRule_new
    /\ rule_config = DefaultConfig
    /\ coreRun = [kind |-> "deeds",
                  board |-> [ReputationBoard_new(0) EXCEPT !.max_deeds = MaxDeeds],
                  recorded |-> 0,
                  last |-> BoardLast("new", <<>>, <<>>, 0, 0)]

\* board.record_deed(NotableDeed { valence, .. }); the n-th deed carries n as
\* its timestamp.
RecordDeed ==
    /\ coreRun.kind = "deeds"
    /\ coreRun.recorded < MaxDeeds + MaxExtraDeeds
    /\ \E valence \in DeedValences :
          LET deed == [actor |-> "e1", valence |-> valence,
                       timestamp |-> coreRun.recorded + 1, witness_count |-> 1]
          IN  coreRun' = [coreRun EXCEPT
                 !.board = record_deed(@, deed),
                 !.recorded = @ + 1,
                 !.last = BoardLast("deed", coreRun.board.notable_deeds,
                                    Append(coreRun.board.notable_deeds, deed), 0, 0)]
    /\ CoreFrame

DeedNext == RecordDeed

DeedSpec == DeedInit /\ [][DeedNext]_vars

(***************************************************************************)
(* memory/*.rs: the normalized scalars under the mutating methods          *)
(* Valence, importance, strength, trust, intensity, confidence and         *)
(* learning rate are in hundredths, proficiency in millionths.             *)
(***************************************************************************)
\* EpisodicMemory::record_access
record_access(memory, now) ==
    [memory EXCEPT !.access_count = @ + 1,
                   !.last_accessed = now,
                   !.strength = Min(@ + 10, 100)]

\* SemanticMemory::new
SemanticMemory_new(id, confidence, timestamp) ==
    [id |-> id, confidence |-> Clamp(confidence, 0, 100), derived_from |-> <<>>,
     last_reinforced |-> timestamp, created_at |-> timestamp]

\* SemanticMemory::reinforce
reinforce(memory, new_source, now) ==
    [memory EXCEPT !.derived_from = Append(@, new_source),
                   !.confidence = Min(@ + 10, 100),
                   !.last_reinforced = now]

\* SemanticMemory::contradict
contradict(memory, amount) ==
    [memory EXCEPT !.confidence = Max(@ - Abs(amount), 0)]

\* EmotionalMemory::update (intensity and timestamp).
emotional_update(memory, valence_shift, arousal_shift, now) ==
    [memory EXCEPT !.intensity = Clamp(@ + Abs(valence_shift) \div 10, 0, 100),
                   !.last_updated = now]

\* ProceduralMemory::new
ProceduralMemory_new(id, timestamp, learning_rate) ==
    [id |-> id, proficiency |-> 0, repetitions |-> 0, last_practiced |-> timestamp,
     learning_rate |-> Clamp(learning_rate, 1, 200)]

MAX_REPS_TO_EXPERT == 1000

\* ProceduralMemory::practice: ln(1 + repetitions) / ln(1 + 1000), in
\* millionths, times the learning rate.
practice(memory, timestamp) ==
    LET repetitions == memory.repetitions + 1
        progress == ((Log2Milli(1 + repetitions) * 100000)
                        \div Log2Milli(1 + MAX_REPS_TO_EXPERT)) * 10
    IN  [memory EXCEPT !.repetitions = repetitions,
                       !.last_practiced = timestamp,
                       !.proficiency = Clamp((memory.learning_rate * progress) \div 100,
                                             0, 1000000)]

DaysPerYear == 365

\* exp(-days / 365) in millionths, for whole days of either sign.
procedural_decay_factor(days_since_practice) ==
    IF days_since_practice >= 0
    THEN ExpNegMicro((days_since_practice * 1000) \div DaysPerYear)
    ELSE 1000000000 \div (ExpNegMicro((-days_since_practice * 1000) \div DaysPerYear)
                             \div 1000)

\* ProceduralMemory::decay
procedural_decay(memory, days_since_practice) ==
    LET decay_factor == procedural_decay_factor(days_since_practice)
        product == IF decay_factor <= 1000000
                   THEN MulMicro(memory.proficiency, decay_factor)
                   ELSE (memory.proficiency \div 1000) * (decay_factor \div 1000)
    IN  [memory EXCEPT !.proficiency = Max(product, 0)]

\* ProceduralMemory::apply_transfer
apply_transfer(memory, related_proficiency, transfer_rate) ==
    LET boost == related_proficiency * transfer_rate * 10
    IN  [memory EXCEPT !.proficiency = Clamp(@ + boost, 0, 1000000)]

\* Most method calls on one memory.
MaxCalls == 2

\* Arguments as callers pass them, in hundredths, in and out of range.
ScalarArgs == {-250, -50, 0, 50, 250}

\* Days since practice as callers pass them.
DecayDays == {-730, 0, 365}

\* Every memory a constructor makes from those arguments.
Constructed ==
    {[variant |-> "Episodic", m |-> EpisodicMemory_new(1, 0, v, i)] :
        v \in ScalarArgs, i \in ScalarArgs}
    \cup {[variant |-> "Social", m |-> SocialMemory_new(1, "e1", "e2", t, 0, 0)] :
            t \in ScalarArgs}
    \cup {[variant |-> "Emotional", m |-> EmotionalMemory_new(1, "e1", i, 0)] :
            i \in ScalarArgs}
    \cup {[variant |-> "Semantic", m |-> SemanticMemory_new(1, c, 0)] : c \in ScalarArgs}
    \cup {[variant |-> "Procedural", m |-> ProceduralMemory_new(1, 0, r)] :
            r \in ScalarArgs}

ScalarInit ==
    /\ decayRun = DecayIdle
    /\ evictRun = EvictIdle
    /\ propRun = PropIdle
    /\ queueRun = QueueIdle
    /\ hnswRun = HnswIdle
    /\ MemoryRule_new
    /\ rule_config = DefaultConfig
    /\ \E memory \in Constructed :
          coreRun = [kind |-> "scalars", memory |-> memory, calls |-> 0, op |-> "new"]

\* The memory after one more method call.
ScalarStep(m, op) ==
    coreRun' = [coreRun EXCEPT !.memory.m = m, !.calls = @ + 1, !.op = op]

ScalarGuard(variant) ==
    /\ coreRun.kind = "scalars"
    /\ coreRun.calls < MaxCalls
    /\ coreRun.memory.variant = variant

RecordAccess ==
    /\ ScalarGuard("Episodic")
    /\ ScalarStep(record_access(coreRun.memory.m, coreRun.calls + 1), "record_access")
    /\ CoreFrame

Reinforce ==
    /\ ScalarGuard("Semantic")
    /\ ScalarStep(reinforce(coreRun.memory.m, 2, coreRun.calls + 1), "reinforce")
    /\ CoreFrame

Contradict ==
    /\ ScalarGuard("Semantic")
    /\ \E amount \in ScalarArgs :
          ScalarStep(contradict(coreRun.memory.m, amount), "contradict")
    /\ CoreFrame

EmotionalUpdate ==
    /\ ScalarGuard("Emotional")
    /\ \E valence_shift \in ScalarArgs :
          ScalarStep(emotional_update(coreRun.memory.m, valence_shift, 0,
                                      coreRun.calls + 1), "update")
    /\ CoreFrame

Practice ==
    /\ ScalarGuard("Procedural")
    /\ ScalarStep(practice(coreRun.memory.m, coreRun.calls + 1), "practice")
    /\ CoreFrame

ProceduralDecay ==
    /\ ScalarGuard("Procedural")
    /\ \E days_since_practice \in DecayDays :
          ScalarStep(procedural_decay(coreRun.memory.m, days_since_practice), "decay")
    /\ CoreFrame

ApplyTransfer ==
    /\ ScalarGuard("Procedural")
    /\ \E related_proficiency \in ScalarArgs, transfer_rate \in ScalarArgs :
          ScalarStep(apply_transfer(coreRun.memory.m, related_proficiency,
                                    transfer_rate), "apply_transfer")
    /\ CoreFrame

ScalarNext ==
    \/ RecordAccess
    \/ Reinforce
    \/ Contradict
    \/ EmotionalUpdate
    \/ Practice
    \/ ProceduralDecay
    \/ ApplyTransfer

ScalarSpec == ScalarInit /\ [][ScalarNext]_vars

(***************************************************************************)
(* behavior.rs: disposition, greeting style, price modifier                *)
(* Memory fields are in hundredths, sentiment and confidence of a          *)
(* disposition in thousandths, the price modifier in millionths.           *)
(***************************************************************************)
RECURSIVE SumSeq(_)
SumSeq(s) == IF s = <<>> THEN 0 ELSE Head(s) + SumSeq(Tail(s))

UnknownDisposition ==
    [sentiment |-> 0, confidence |-> 0, interaction_count |-> 0,
     basis |-> [kind |-> "Unknown"]]

\* compute_direct_sentiment: None, or the disposition from the episodic
\* memories the target took part in and the emotional memories about it.
compute_direct_sentiment(bank, target) ==
    LET InvolvesTarget(m) == target \in Range(m.participants)
        AboutTarget(m) == m.target = target
        relevant_episodic == SelectSeq(bank.episodic, InvolvesTarget)
        relevant_emotional == SelectSeq(bank.emotional, AboutTarget)
        total_weight == SumSeq([i \in DOMAIN relevant_episodic |->
                                   relevant_episodic[i].strength
                                      * relevant_episodic[i].importance])
        weighted == SumSeq([i \in DOMAIN relevant_episodic |->
                               relevant_episodic[i].emotional_valence
                                  * ((relevant_episodic[i].strength
                                        * relevant_episodic[i].importance) \div 100)])
        episodic_sentiment ==
            IF relevant_episodic = <<>> \/ total_weight = 0 THEN 0
            ELSE DivTrunc(weighted * 100, total_weight)
        emotional_sentiment ==
            IF relevant_emotional = <<>> THEN 0
            ELSE LET m == relevant_emotional[Len(relevant_emotional)]
                 IN  IF m.pleasure > 0 THEN m.intensity ELSE -m.intensity
        positive == Cardinality({i \in DOMAIN relevant_episodic :
                                    relevant_episodic[i].emotional_valence > 10})
        negative == Cardinality({i \in DOMAIN relevant_episodic :
                                    relevant_episodic[i].emotional_valence < -10})
        count == Len(relevant_episodic) + Len(relevant_emotional)
    IN  IF relevant_episodic = <<>> /\ relevant_emotional = <<>> THEN <<>>
        ELSE <<[sentiment |-> Clamp(episodic_sentiment * 6 + emotional_sentiment * 4,
                                    -1000, 1000),
                confidence |-> Min(count * 100, 1000),
                interaction_count |-> count,
                basis |-> [kind |-> "DirectExperience", positive_count |-> positive,
                           negative_count |-> negative]]>>

\* The social sentiment from a list of relevant social memories.
SocialDisposition(relevant) ==
    LET trust_sum == SumSeq([i \in DOMAIN relevant |-> relevant[i].trust_in_source])
        avg_trust == trust_sum \div Len(relevant)
        weighted == SumSeq([i \in DOMAIN relevant |->
                               relevant[i].sentiment * relevant[i].trust_in_source])
        social_sentiment == DivTrunc(weighted * 10, Max(trust_sum, 1))
    IN  [sentiment |-> Clamp(social_sentiment, -1000, 1000),
         confidence |-> Min(avg_trust * Len(relevant) * 2, 1000),
         interaction_count |-> Len(relevant),
         basis |-> [kind |-> "Hearsay", source_count |-> Len(relevant),
                    avg_trust |-> avg_trust]]

\* Mutant of compute_social_sentiment: disbelieved claims count too.
compute_social_sentiment_any(bank, target) ==
    LET Relevant(m) == m.about = target
        relevant == SelectSeq(bank.social, Relevant)
    IN  IF relevant = <<>> THEN <<>> ELSE <<SocialDisposition(relevant)>>

\* compute_social_sentiment: None, or the disposition from the believed social
\* memories about the target.
compute_social_sentiment(bank, target) ==
    LET Relevant(m) == m.about = target /\ m.believed
        relevant == SelectSeq(bank.social, Relevant)
    IN  IF relevant = <<>> THEN <<>> ELSE <<SocialDisposition(relevant)>>

\* compute_disposition
compute_disposition(bank, target) ==
    LET direct == compute_direct_sentiment(bank, target)
        social == compute_social_sentiment(bank, target)
    IN  CASE direct # <<>> /\ social # <<>> ->
                LET d == direct[1]
                    s == social[1]
                IN  [sentiment |-> Clamp(DivTrunc(d.sentiment * 75 + s.sentiment * 25, 100),
                                         -1000, 1000),
                     confidence |-> Min((d.confidence * 75 + s.confidence * 25) \div 100,
                                        1000),
                     interaction_count |-> d.interaction_count + s.interaction_count,
                     basis |-> [kind |-> "Mixed", direct_weight |-> 75]]
          [] direct # <<>> /\ social = <<>> -> direct[1]
          [] direct = <<>> /\ social # <<>> -> social[1]
          [] OTHER -> UnknownDisposition

\* compute_greeting_style
compute_greeting_style(disposition) ==
    IF disposition.confidence < 100 THEN "Neutral"
    ELSE CASE disposition.sentiment > 600 -> "Warm"
           [] disposition.sentiment <= 600 /\ disposition.sentiment > -200 -> "Neutral"
           [] disposition.sentiment <= -200 /\ disposition.sentiment > -500 -> "Cool"
           [] disposition.sentiment <= -500 /\ disposition.sentiment > -800 -> "Hostile"
           [] OTHER -> "Silent"

\* compute_price_modifier
compute_price_modifier(disposition) ==
    IF disposition.confidence < 50 THEN 1000000
    ELSE Clamp(1000000 - disposition.sentiment * 150, 750000, 1350000)

\* Most memories of one variant in the bank asked about.
MaxKnown == 2

\* Episodic memories as observe leaves them, with their participants.
KnownEpisodic ==
    {[participants |-> <<"e1">>, emotional_valence |-> -80, importance |-> 70,
      strength |-> 100],
     [participants |-> <<"e2">>, emotional_valence |-> 90, importance |-> 50,
      strength |-> 100]}

KnownEmotional ==
    {[target |-> "e1", intensity |-> 80, pleasure |-> -50],
     [target |-> "e2", intensity |-> 60, pleasure |-> 50]}

KnownSocial ==
    {[about |-> "e1", believed |-> TRUE, trust_in_source |-> 80, sentiment |-> -90],
     [about |-> "e1", believed |-> FALSE, trust_in_source |-> 30, sentiment |-> -90],
     [about |-> "e2", believed |-> TRUE, trust_in_source |-> 60, sentiment |-> 70]}

DispositionInit ==
    /\ decayRun = DecayIdle
    /\ evictRun = EvictIdle
    /\ propRun = PropIdle
    /\ queueRun = QueueIdle
    /\ hnswRun = HnswIdle
    /\ MemoryRule_new
    /\ rule_config = DefaultConfig
    /\ \E episodic \in SeqsUpTo(KnownEpisodic, 1), emotional \in SeqsUpTo(KnownEmotional, 1),
          social \in SeqsUpTo(KnownSocial, MaxKnown), target \in Entities :
          coreRun = [kind |-> "disposition",
                     bank |-> [EmptyBank EXCEPT !.episodic = episodic,
                                                !.emotional = emotional,
                                                !.social = social],
                     target |-> target, called |-> FALSE,
                     disposition |-> UnknownDisposition, greeting |-> "", price |-> 0]

\* The NPC meets the target: disposition, then greeting and price from it.
MeetTarget ==
    /\ coreRun.kind = "disposition"
    /\ ~coreRun.called
    /\ LET disposition == compute_disposition(coreRun.bank, coreRun.target)
       IN  coreRun' = [coreRun EXCEPT
                         !.called = TRUE,
                         !.disposition = disposition,
                         !.greeting = compute_greeting_style(disposition),
                         !.price = compute_price_modifier(disposition)]
    /\ CoreFrame

DispositionNext == MeetTarget

DispositionSpec == DispositionInit /\ [][DispositionNext]_vars

(***************************************************************************)
(* eviction.rs: classify_ring applied to arbitrary ticks                   *)
(***************************************************************************)
\* Ticks of a memory and of the clock, in either order.
RingTicks == {0, 5, 3000, 100000}

\* Ticks per game-hour, the degenerate 0 among them.
RingTicksPerHour == {0, 1, 1200}

\* EvictionConfig values: the defaults and the shortest hot ring.
RingConfigs ==
    [hot_ring_hours : {1, 24}, warm_ring_days : {7}, cold_ring_days : {90},
     protect_emotional_threshold : {80}, protect_first_meeting : {TRUE}]

RingInit ==
    /\ decayRun = DecayIdle
    /\ evictRun = EvictIdle
    /\ propRun = PropIdle
    /\ queueRun = QueueIdle
    /\ hnswRun = HnswIdle
    /\ MemoryRule_new
    /\ rule_config = DefaultConfig
    /\ \E memory_tick \in RingTicks, current_tick \in RingTicks,
          ticks_per_hour \in RingTicksPerHour, config \in RingConfigs :
          coreRun = [kind |-> "ring", memory_tick |-> memory_tick,
                     current_tick |-> current_tick, ticks_per_hour |-> ticks_per_hour,
                     config |-> config, ring |-> <<>>]

\* classify_ring(memory_tick, current_tick, ticks_per_hour, &config)
ClassifyRing ==
    /\ coreRun.kind = "ring"
    /\ coreRun.ring = <<>>
    /\ coreRun' = [coreRun EXCEPT
                     !.ring = <<classify_ring(coreRun.memory_tick, coreRun.current_tick,
                                              coreRun.ticks_per_hour, coreRun.config)>>]
    /\ CoreFrame

RingNext == ClassifyRing

RingSpec == RingInit /\ [][RingNext]_vars

(***************************************************************************)
(* injection.rs: inject_memory on one NPC bank                             *)
(***************************************************************************)
\* InjectionConfig::default().
InjectionConfig_default ==
    [max_per_npc_per_player |-> 3, max_content_length |-> 500,
     llm_validation_enabled |-> FALSE, min_plausibility |-> 30]

\* InjectedMemory::new followed by with_known_npcs.
InjectedMemory_new(content, emotional_weight, timestamp, priority, known) ==
    [content |-> content, emotional_weight |-> emotional_weight,
     timestamp |-> timestamp, priority |-> priority, known_to_npcs |-> known]

\* A backstory text is carried by what the pipeline reads off it: its length,
\* whether it is blank, the verdict of safety::validate_injection, the
\* implausibility penalty of its keywords, its priority and emotional weight.
assess_plausibility(content, npc_personality) ==
    Clamp(50 + DivTrunc(npc_personality.credulity * 30, 100)
             + DivTrunc(npc_personality.openness * 20, 100) - content.penalty, 0, 100)

\* Step 1: the player's existing injections against the limit (the exact test).
rate_limited_late(existing_from_player, config) ==
    existing_from_player > config.max_per_npc_per_player

rate_limited(existing_from_player, config) ==
    existing_from_player >= config.max_per_npc_per_player

\* Injected memories of `injected` attributed to `player`.
existing_from(injected, player) ==
    Len(SelectSeq(injected, LAMBDA m : player \in Range(m.known_to_npcs)))

\* inject_memory: the result kind and the bank after the call.
inject_memory(content, player, npc_personality, bank, timestamp, config) ==
    LET Rejected(reason) == [kind |-> "Rejected", reason |-> reason, bank |-> bank]
    IN  IF rate_limited(existing_from(bank.injected, player), config)
        THEN Rejected("limit")
        ELSE IF content.len > config.max_content_length THEN Rejected("too long")
        ELSE IF content.blank THEN Rejected("empty")
        ELSE IF content.verdict \in {"Rejected", "Err"} THEN Rejected("safety")
        ELSE IF assess_plausibility(content, npc_personality) < config.min_plausibility
        THEN Rejected("implausible")
        ELSE [kind |-> "Accepted", reason |-> "",
              bank |-> [bank EXCEPT !.injected =
                          Append(@, InjectedMemory_new(content.text, content.weight,
                                                       timestamp, content.priority,
                                                       <<player>>))]]

\* Calls made on the bank in one run.
MaxInjectCalls == 5

InjectPlayers == {"p1", "p2"}

\* A plain backstory, an overlong one, one the safety pipeline flags, one it
\* rejects, and an implausible boast.
InjectContents ==
    {[text |-> "helped", len |-> 50, blank |-> FALSE, verdict |-> "Approved",
      penalty |-> 0, priority |-> "Low", weight |-> 15],
     [text |-> "long", len |-> 600, blank |-> FALSE, verdict |-> "Rejected",
      penalty |-> 0, priority |-> "Low", weight |-> 0],
     [text |-> "flagged", len |-> 50, blank |-> FALSE, verdict |-> "Flagged",
      penalty |-> 0, priority |-> "Normal", weight |-> 0],
     [text |-> "code", len |-> 50, blank |-> FALSE, verdict |-> "Rejected",
      penalty |-> 0, priority |-> "Low", weight |-> 0],
     [text |-> "immortal", len |-> 50, blank |-> FALSE, verdict |-> "Approved",
      penalty |-> 40, priority |-> "Low", weight |-> 0]}

InjectPersonalities ==
    {DefaultPersonality, [DefaultPersonality EXCEPT !.credulity = 0, !.openness = 0]}

InjectTimestamp == 36000

InjectInit ==
    /\ decayRun = DecayIdle
    /\ evictRun = EvictIdle
    /\ propRun = PropIdle
    /\ queueRun = QueueIdle
    /\ hnswRun = HnswIdle
    /\ MemoryRule_new
    /\ rule_config = DefaultConfig
    /\ \E npc_personality \in InjectPersonalities :
          coreRun = [kind |-> "inject", bank |-> EmptyBank, personality |-> npc_personality,
                     calls |-> 0, player |-> "", before |-> EmptyBank, result |-> ""]

\* One inject_memory call by some player with some text.
InjectMemory ==
    /\ coreRun.kind = "inject"
    /\ coreRun.calls < MaxInjectCalls
    /\ \E player \in InjectPlayers, content \in InjectContents :
          LET r == inject_memory(content, player, coreRun.personality, coreRun.bank,
                                 InjectTimestamp, InjectionConfig_default)
          IN  coreRun' = [coreRun EXCEPT !.calls = @ + 1, !.player = player,
                                         !.before = coreRun.bank, !.bank = r.bank,
                                         !.result = r.kind]
    /\ CoreFrame

InjectNext == InjectMemory

InjectSpec == InjectInit /\ [][InjectNext]_vars

(***************************************************************************)
(* persistence.rs: the memory_banks table behind PersistenceEngine         *)
(***************************************************************************)
\* serde_json::to_vec(bank): the fields marked #[serde(skip)], the embedding
\* of an episodic and of a semantic memory, are not written.
json_memory(memory) == [f \in DOMAIN memory \ {"embedding"} |-> memory[f]]

to_json(bank) ==
    [bank EXCEPT !.episodic = [i \in DOMAIN @ |-> json_memory(@[i])],
                 !.semantic = [i \in DOMAIN @ |-> json_memory(@[i])]]

\* serde_json::from_slice(data): a skipped field takes its default, None.
memory_from_json(data) ==
    [f \in DOMAIN data \cup {"embedding"} |->
        IF f = "embedding" THEN <<>> ELSE data[f]]

from_json(data) ==
    [data EXCEPT !.episodic = [i \in DOMAIN @ |-> memory_from_json(@[i])],
                 !.semantic = [i \in DOMAIN @ |-> memory_from_json(@[i])]]

\* save_bank: INSERT ... ON CONFLICT(entity_id) DO UPDATE (the upsert).
save_bank_keep_first(rows, entity_id, bank) ==
    IF rows[entity_id] = <<>> THEN [rows EXCEPT ![entity_id] = <<to_json(bank)>>]
    ELSE rows

save_bank(rows, entity_id, bank) == [rows EXCEPT ![entity_id] = <<to_json(bank)>>]

\* load_bank: None without a row, the decoded row otherwise.
load_bank(rows, entity_id) ==
    IF rows[entity_id] = <<>> THEN <<>> ELSE <<from_json(rows[entity_id][1])>>

\* delete_bank: the table without the row, and whether a row was deleted.
delete_bank(rows, entity_id) ==
    [rows |-> [rows EXCEPT ![entity_id] = <<>>], deleted |-> rows[entity_id] # <<>>]

\* list_entities (in no particular order) and entity_count.
list_entities(rows) == {entity_id \in DOMAIN rows : rows[entity_id] # <<>>}

entity_count(rows) == Cardinality({entity_id \in DOMAIN rows : rows[entity_id] # <<>>})

\* Calls made on one engine in a run.
MaxPersistCalls == 4

\* An episodic memory as EpisodicMemory::new leaves it, with the embedding
\* cache empty or filled in.
PersistMemory(embedding) ==
    [id |-> 1, tick |-> 1000, emotional_valence |-> 60, importance |-> 70,
     strength |-> 100, access_count |-> 0, last_accessed |-> 1000,
     is_first_meeting |-> FALSE, embedding |-> embedding]

PersistBanks ==
    {EmptyBank,
     [EmptyBank EXCEPT !.episodic = <<PersistMemory(<<>>)>>],
     [EmptyBank EXCEPT !.episodic = <<PersistMemory(<<>>)>>,
                       !.social = <<SocialMemory_new(2, "e1", "e2", 70, 1, 3000)>>],
     [EmptyBank EXCEPT !.episodic = <<PersistMemory(<<<<3, 4>>>>)>>]}

NoRows == [entity_id \in Entities |-> <<>>]

PersistInit ==
    /\ decayRun = DecayIdle
    /\ evictRun = EvictIdle
    /\ propRun = PropIdle
    /\ queueRun = QueueIdle
    /\ hnswRun = HnswIdle
    /\ MemoryRule_new
    /\ rule_config = DefaultConfig
    /\ coreRun = [kind |-> "persist", rows |-> NoRows, saved |-> NoRows,
                  rows_before |-> NoRows, saved_before |-> NoRows, calls |-> 0,
                  op |-> "", entity |-> "", loaded |-> <<>>, deleted |-> FALSE,
                  listed |-> {}, count |-> 0]

\* The bookkeeping every engine call shares: `saved` remembers, per entity,
\* the bank handed to the latest save_bank not followed by a delete_bank.
PersistStep(op, entity_id, rows, saved) ==
    [coreRun EXCEPT !.calls = @ + 1, !.op = op, !.entity = entity_id,
                    !.rows_before = coreRun.rows, !.saved_before = coreRun.saved,
                    !.rows = rows, !.saved = saved]

SaveBank ==
    /\ coreRun.kind = "persist"
    /\ coreRun.calls < MaxPersistCalls
    /\ \E entity_id \in Entities, bank \in PersistBanks :
          coreRun' = PersistStep("save", entity_id,
                                 save_bank(coreRun.rows, entity_id, bank),
                                 [coreRun.saved EXCEPT ![entity_id] = <<bank>>])
    /\ CoreFrame

LoadBank ==
    /\ coreRun.kind = "persist"
    /\ coreRun.calls < MaxPersistCalls
    /\ \E entity_id \in Entities :
          coreRun' = [PersistStep("load", entity_id, coreRun.rows, coreRun.saved)
                        EXCEPT !.loaded = load_bank(coreRun.rows, entity_id)]
    /\ CoreFrame

DeleteBank ==
    /\ coreRun.kind = "persist"
    /\ coreRun.calls < MaxPersistCalls
    /\ \E entity_id \in Entities :
          LET r == delete_bank(coreRun.rows, entity_id)
          IN  coreRun' = [PersistStep("delete", entity_id, r.rows,
                                      [coreRun.saved EXCEPT ![entity_id] = <<>>])
                            EXCEPT !.deleted = r.deleted]
    /\ CoreFrame

ListEntities ==
    /\ coreRun.kind = "persist"
    /\ coreRun.calls < MaxPersistCalls
    /\ coreRun' = [PersistStep("list", "", coreRun.rows, coreRun.saved)
                     EXCEPT !.listed = list_entities(coreRun.rows),
                            !.count = entity_count(coreRun.rows)]
    /\ CoreFrame

PersistNext == SaveBank \/ LoadBank \/ DeleteBank \/ ListEntities

PersistSpec == PersistInit /\ [][PersistNext]_vars

(***************************************************************************)
(* observation.rs: observe called with arbitrary events                    *)
(***************************************************************************)
\* observe calls made in one run.
MaxObserveCalls == 2

\* Participant lists with and without somebody other than the observer.
ObserveParticipants == {<<>>, <<"e1">>, <<"e2">>, <<"e1", "e2">>}

\* Valences below, at, just above and far above the 0.4 threshold.
ObserveEvents ==
    [kind : {"Dialogue"}, participants : ObserveParticipants,
     emotional_valence : {10, 40, 41, -90}, importance : {20}, timestamp : {0}]

BankOf(bs, entity) == IF entity \in DOMAIN bs THEN bs[entity] ELSE EmptyBank

ObserveInit ==
    /\ decayRun = DecayIdle
    /\ evictRun = EvictIdle
    /\ propRun = PropIdle
    /\ queueRun = QueueIdle
    /\ hnswRun = HnswIdle
    /\ MemoryRule_new
    /\ rule_config = DefaultConfig
    /\ coreRun = [kind |-> "observe", banks |-> EmptyMap, boards |-> EmptyMap,
                  next_id |-> 1, calls |-> 0, before |-> EmptyMap,
                  event |-> <<>>, observer |-> ""]

\* One observe call on the bank of some observer.
ObserveEvent ==
    /\ coreRun.kind = "observe"
    /\ coreRun.calls < MaxObserveCalls
    /\ \E event \in ObserveEvents, observer \in Entities,
          known_entities \in {{}, Entities} :
          LET r == observe([banks |-> coreRun.banks, boards |-> coreRun.boards,
                            next_id |-> coreRun.next_id],
                           event, observer, known_entities)
          IN  coreRun' = [coreRun EXCEPT !.calls = @ + 1, !.before = coreRun.banks,
                                         !.banks = r.banks, !.next_id = r.next_id,
                                         !.event = <<event>>, !.observer = observer]
    /\ CoreFrame

ObserveNext == ObserveEvent

ObserveSpec == ObserveInit /\ [][ObserveNext]_vars

(***************************************************************************)
(* behavior.rs: the filter of select_gossip                                *)
(***************************************************************************)
\* The closure select_gossip filters the speaker's social memories with.
select_gossip_filter(m, listener) ==
    /\ m.about # listener
    /\ m.believed
    /\ m.propagation_depth < 3

(***************************************************************************)
(* Properties of social propagation                                        *)
(***************************************************************************)
\* C13: propagate_memory returns Accepted iff the clamped belief is above
\* 0.55, Rejected iff it is below 0.45 and Uncertain otherwise, with
\* will_investigate true iff the receiver's openness is above 0.5.
C13_OutcomeByBelief ==
    (propRun.kind = "chain" /\ propRun.calls >= 1) =>
        LET r == propRun.result
            b == propRun.belief
        IN  /\ b >= 0 /\ b <= 1000000
            /\ r.kind \in {"Accepted", "Rejected", "Uncertain"}
            /\ r.kind = "Accepted" <=> b > 550000
            /\ r.kind = "Rejected" <=> b < 450000
            /\ r.kind = "Uncertain" <=> (b >= 450000 /\ b <= 550000)
            /\ r.kind = "Uncertain" => (r.will_investigate <=> propRun.openness > 50)

\* A call whose belief is exactly 0.55 has returned Uncertain, the receiver
\* investigating.
C13_Witness ==
    /\ propRun.kind = "chain"
    /\ propRun.calls >= 1
    /\ propRun.belief = 550000
    /\ propRun.result.kind = "Uncertain"
    /\ propRun.result.will_investigate

\* C14: an Accepted result carries a memory one hop deeper than the claim,
\* about the same entity and from the same original source; along a chain the
\* depth has grown by one per accepted hop.
C14_DepthGrowsByOne ==
    propRun.kind = "chain" =>
        /\ propRun.claim.propagation_depth
              = propRun.start.propagation_depth + propRun.hops
        /\ propRun.claim.about = propRun.start.about
        /\ propRun.claim.source = propRun.start.source
        /\ (propRun.calls >= 1 /\ propRun.result.kind = "Accepted") =>
              /\ propRun.result.new_memory.propagation_depth
                    = propRun.prev.propagation_depth + 1
              /\ propRun.result.new_memory.about = propRun.prev.about
              /\ propRun.result.new_memory.source = propRun.prev.source

\* Two hops in a row were accepted.
C14_Witness ==
    /\ propRun.kind = "chain"
    /\ propRun.hops = 2
    /\ propRun.result.kind = "Accepted"
    /\ propRun.claim.propagation_depth = propRun.start.propagation_depth + 2

\* The listener's bank, an absent bank holding nothing.
\* C12: a gossip contact between two different entities changes nothing but
\* the listener's social sequence, to whose end it appends the accepted
\* results, at most two: the speaker's bank, every other bank, the boards, the
\* personalities and the listener's other memories stay as they were.
C12_GossipOnlyAppendsToListener ==
    [][(lastOp'.op = "propagate_gossip" /\ propRun'.speaker # propRun'.listener) =>
          LET l == propRun'.listener
              before == BankOf(banks, l)
              after == BankOf(banks', l)
          IN  /\ reputation_boards' = reputation_boards
              /\ personalities' = personalities
              /\ rule_config' = rule_config
              /\ rule_current_tick' = rule_current_tick
              /\ DOMAIN banks \subseteq DOMAIN banks'
              /\ DOMAIN banks' \subseteq DOMAIN banks \cup {l}
              /\ \A e \in DOMAIN banks \ {l} : banks'[e] = banks[e]
              /\ \A v \in Variants \ {"social"} :
                    VariantSeq(after, v) = VariantSeq(before, v)
              /\ IsPrefix(before.social, after.social)
              /\ Len(after.social) - Len(before.social) <= 2
              /\ Len(after.social) - Len(before.social)
                    = Cardinality(propRun'.shared)]_vars

\* A contact has appended two accepted memories behind one the listener
\* already had.
C12_Witness ==
    /\ lastOp.op = "propagate_gossip"
    /\ propRun.speaker # propRun.listener
    /\ Cardinality(propRun.shared) = 2
    /\ Len(banks[propRun.listener].social) >= 3
    /\ propRun.speaker \in DOMAIN banks

Unpropagatable(m) == m.propagation_depth >= 4 \/ m.trust_in_source <= 10

\* The social memories of an entity with the given ids.
SocialWithIds(bs, entity, ids) ==
    {m \in Range(BankOf(bs, entity).social) : m.id \in ids}

\* C15: a social memory of depth >= 4 or trust <= 0.1 is not propagatable, and
\* no gossip contact appends a memory derived from one: none is among the
\* memories a contact has shared, and no bank holds a memory one hop past such
\* a memory.
C15_UnpropagatableNeverShared ==
    /\ \A e \in DOMAIN banks :
          \A m \in Range(banks[e].social) :
              /\ Unpropagatable(m) => ~is_propagatable(m)
              /\ m.propagation_depth <= 4
              /\ m.trust_in_source >= 10
    /\ lastOp.op = "propagate_gossip" =>
          \A m \in SocialWithIds(banks, propRun.speaker, propRun.shared) :
              ~Unpropagatable(m)

\* A speaker has offered a memory of depth 4 to the most credulous listener,
\* who accepted another memory of that contact but not this one.
C15_Witness ==
    /\ lastOp.op = "propagate_gossip"
    /\ propRun.speaker # propRun.listener
    /\ personality(personalities, propRun.listener) = Talkative
    /\ propRun.shared # {}
    /\ \E m \in SocialWithIds(banks, propRun.speaker, propRun.offered \ propRun.shared) :
          m.propagation_depth >= 4

(***************************************************************************)
(* Properties of the LLM request queue                                     *)
(***************************************************************************)
\* C16: whatever order enqueue, dequeue and purge_expired are called in
\* through the handles of one queue, the number of queued requests never
\* exceeds max_queue_size.
C16_NeverAboveMaxQueueSize ==
    queueRun.kind = "queue" =>
        Len(queueRun.inner.heap) <= queueRun.inner.max_queue_size

\* A queue with two handles is full and has just turned a request away.
C16_Witness ==
    /\ queueRun.kind = "queue"
    /\ queueRun.handles = QueueHandles
    /\ Len(queueRun.inner.heap) = queueRun.inner.max_queue_size
    /\ queueRun.last.op = "enqueue"
    /\ queueRun.last.result = <<>>

\* C17: enqueue on a full queue returns None and adds one to total_dropped;
\* the queued requests, total_enqueued and the next id stay as they were,
\* whatever the priority of the request.
C17_FullQueueDrops ==
    [][(/\ queueRun.kind = "queue"
        /\ queueRun'.last.op = "enqueue"
        /\ Len(queueRun.inner.heap) >= queueRun.inner.max_queue_size) =>
          /\ queueRun'.last.result = <<>>
          /\ queueRun'.inner.total_dropped = queueRun.inner.total_dropped + 1
          /\ queueRun'.inner.heap = queueRun.inner.heap
          /\ queueRun'.inner.total_enqueued = queueRun.inner.total_enqueued
          /\ queueRun'.inner.next_id = queueRun.inner.next_id
          /\ queueRun'.inner.total_expired = queueRun.inner.total_expired
          /\ queueRun'.inner.max_queue_size = queueRun.inner.max_queue_size]_vars

\* A Critical request has been turned away by a full queue holding a Low one.
C17_Witness ==
    /\ queueRun.kind = "queue"
    /\ queueRun.last.op = "enqueue"
    /\ queueRun.last.args[1] = Critical
    /\ queueRun.last.result = <<>>
    /\ queueRun.inner.total_dropped = 1
    /\ Len(queueRun.inner.heap) = queueRun.inner.max_queue_size
    /\ \E i \in DOMAIN queueRun.inner.heap : queueRun.inner.heap[i].priority = Low

\* The queued requests that have not expired at the instant now.
LiveRequests(heap, now) == {r \in Range(heap) : ~is_expired(r, now)}

\* C18: the request dequeue returns has the highest priority among the queued
\* requests that have not expired, and among those of its priority it is the
\* one enqueued first.
C18_HighestPriorityThenFifo ==
    [][(/\ queueRun.kind = "queue"
        /\ queueRun'.last.op = "dequeue"
        /\ queueRun'.last.result # <<>>) =>
          LET got == queueRun'.last.result[1]
              live == LiveRequests(queueRun.inner.heap, queueRun.now)
          IN  /\ got \in live
              /\ \A r \in live :
                    /\ r.priority <= got.priority
                    /\ r.priority = got.priority => got.id <= r.id]_vars

\* C19: dequeue never returns an expired request; every request it removes
\* besides the one it returns had expired and is counted in total_expired; it
\* returns None only when no queued request is left that has not expired.
C19_ExpiredSkippedAndCounted ==
    [][(queueRun.kind = "queue" /\ queueRun'.last.op = "dequeue") =>
          LET before == queueRun.inner
              after == queueRun'.inner
              result == queueRun'.last.result
              removed == Range(before.heap) \ Range(after.heap)
              discarded == removed \ Range(result)
          IN  /\ Range(after.heap) \subseteq Range(before.heap)
              /\ Len(after.heap) + Cardinality(removed) = Len(before.heap)
              /\ \A r \in Range(result) :
                    r \in Range(before.heap) /\ ~is_expired(r, queueRun.now)
              /\ \A r \in discarded : is_expired(r, queueRun.now)
              /\ after.total_expired = before.total_expired + Cardinality(discarded)
              /\ result = <<>> => LiveRequests(before.heap, queueRun.now) = {}
              /\ LiveRequests(before.heap, queueRun.now) # {} => result # <<>>]_vars

\* A dequeue has discarded an expired request and returned one that has not
\* expired, leaving another queued.
C19_Witness ==
    /\ queueRun.kind = "queue"
    /\ queueRun.last.op = "dequeue"
    /\ queueRun.last.expired >= 1
    /\ queueRun.last.result # <<>>
    /\ queueRun.inner.heap # <<>>

(***************************************************************************)
(* Properties of the nearest-neighbour index                               *)
(***************************************************************************)
\* The distance from query to the point the index holds under memory_id.
HeldDistance(index, query, memory_id) ==
    LET i == CHOOSE i \in DOMAIN index.pending_values :
                 index.pending_values[i] = memory_id
    IN  distance(from_embedding(query), index.pending_points[i])

\* C20: search(query, k) returns at most k results, nearest first; an index
\* holding fewer than k points returns every one of them, an empty one none;
\* an index that has not been built returns the k nearest of the inserted
\* points.
C20_SearchReturnsNearest ==
    (hnswRun.kind = "hnsw" /\ hnswRun.last.op = "search") =>
        LET index == hnswRun.index
            results == hnswRun.last.results
            k == hnswRun.last.k
            query == hnswRun.last.query
            held == Range(index.pending_values)
            found == {results[j].memory_id : j \in DOMAIN results}
        IN  /\ Len(results) <= k
            /\ \A j \in 1..(Len(results) - 1) :
                  results[j].distance <= results[j + 1].distance
            /\ Len(index.pending_points) < k =>
                  /\ found = held
                  /\ Len(results) = Len(index.pending_points)
            /\ index.pending_points = <<>> => results = <<>>
            /\ index.map = <<>> =>
                  /\ Len(results) = Min(k, Len(index.pending_points))
                  /\ Cardinality(found) = Len(results)
                  /\ found \subseteq held
                  /\ \A j \in DOMAIN results :
                        /\ results[j].distance
                              = HeldDistance(index, query, results[j].memory_id)
                        /\ \A other \in held \ found :
                              results[j].distance <= HeldDistance(index, query, other)

\* C21: needs_rebuild is true exactly when the index is not built and holds a
\* pending point, or the inserts and removals since the last build, divided by
\* the number of points held, exceed 0.2; right after build it is false.
C21_NeedsRebuildPolicy ==
    hnswRun.kind = "life" =>
        LET index == hnswRun.index
            total == Len(index.pending_points)
        IN  /\ needs_rebuild(index) <=>
                  \/ index.map = <<>> /\ total >= 1
                  \/ total >= 1 /\ hnswRun.changes * 5 > total
            /\ hnswRun.last.op = "build" => ~needs_rebuild(index)

\* A built index of five points, one of them inserted since the build: a
\* fifth changed is not more than 0.2, no rebuild is needed.
C21_Witness ==
    /\ hnswRun.kind = "life"
    /\ hnswRun.index.map # <<>>
    /\ Len(hnswRun.index.pending_points) = 5
    /\ hnswRun.changes = 1
    /\ hnswRun.index.dirty_count = 1
    /\ ~needs_rebuild(hnswRun.index)

\* C22: once remove(id) has been followed by a call of build, no search
\* returns id.
C22_RemovedGoneAfterBuild ==
    (hnswRun.kind = "life" /\ hnswRun.last.op = "search") =>
        \A j \in DOMAIN hnswRun.last.results :
            hnswRun.last.results[j].memory_id \notin hnswRun.purged

(***************************************************************************)
(* Properties of retrieval                                                 *)
(***************************************************************************)
\* The candidates of the run scored with the configured weights.
ScoredCandidates ==
    [i \in DOMAIN coreRun.memories |->
        RetrievalResult(coreRun.memories[i], <<1, 0>>, RetrieveNow,
                        coreRun.config.weights)]

\* C23: retrieve returns min(top_k, number of candidates) results, in
\* non-increasing order of score, and they are the highest-scoring candidates:
\* every result is a scored candidate and every candidate scoring above some
\* result is itself returned.
C23_TopKByScore ==
    (coreRun.kind = "retrieve" /\ coreRun.called) =>
        LET results == coreRun.results
            all == ScoredCandidates
        IN  /\ Len(results) = Min(coreRun.config.top_k, Len(coreRun.memories))
            /\ \A j \in 1..(Len(results) - 1) : results[j].score >= results[j + 1].score
            /\ \A j \in DOMAIN results : results[j] \in Range(all)
            /\ \A j \in DOMAIN results :
                  Cardinality({i \in DOMAIN all : all[i].score > results[j].score})
                     = Cardinality({i \in DOMAIN results :
                                       results[i].score > results[j].score})
            /\ coreRun.memories = <<>> => results = <<>>

\* Six candidates of differing scores under the default top_k of 5.
C23_Witness ==
    /\ coreRun.kind = "retrieve"
    /\ coreRun.called
    /\ coreRun.config.top_k = 5
    /\ Len(coreRun.memories) = 6
    /\ Len(coreRun.results) = 5
    /\ coreRun.results[1].score > coreRun.results[5].score
    /\ coreRun.memories[1].m.id = 3

\* C24: with overrides passed, each factor's contribution to a result is the
\* configured weight times the override multiplier times the factor score.
C24_OverridesScaleWeights ==
    (coreRun.kind = "retrieve" /\ coreRun.called /\ coreRun.personality_weights # <<>>) =>
        LET o == coreRun.personality_weights[1]
            w == coreRun.config.weights
        IN  \A j \in DOMAIN coreRun.results :
               LET r == coreRun.results[j]
               IN  r.breakdown =
                      compute_breakdown(r.memory, <<1, 0>>, RetrieveNow,
                                        (w.recency * o.recency_mult) \div 100,
                                        (w.relevance * o.relevance_mult) \div 100,
                                        (w.importance * o.importance_mult) \div 100,
                                        (w.emotional * o.emotional_mult) \div 100,
                                        (w.social * o.social_mult) \div 100)

(***************************************************************************)
(* Properties of the reputation board                                      *)
(***************************************************************************)
\* C25: under any reports, with sentiments outside [-1, 1] among them, and
\* any decays in between, every entry's score lies in [-1, 1].
C25_ScoreBounded ==
    coreRun.kind = "board" =>
        \A i \in DOMAIN coreRun.board.entries :
            /\ coreRun.board.entries[i].score >= -1000000
            /\ coreRun.board.entries[i].score <= 1000000

\* An entry made by a sentiment of -2.0 and then decayed, beside one that took
\* two reports.
C25_Witness ==
    /\ coreRun.kind = "board"
    /\ coreRun.last.op = "decay"
    /\ \E i \in DOMAIN coreRun.board.entries :
          LET e == coreRun.board.entries[i]
          IN  /\ coreRun.hist[e.entity].count = 1
              /\ coreRun.hist[e.entity].sum = -1000000
              /\ e.score > -1000000
              /\ e.score < 0
    /\ \E i \in DOMAIN coreRun.board.entries :
          coreRun.board.entries[i].contributor_count = 2

\* C26: an entry neither decayed nor pruned counts the reports made about its
\* entity and scores the mean of their clamped sentiments (to the resolution
\* of the running average, less than one millionth per report); the first
\* report sets the score to its own sentiment.
C26_RunningMean ==
    coreRun.kind = "board" =>
        \A i \in DOMAIN coreRun.board.entries :
            LET e == coreRun.board.entries[i]
                h == coreRun.hist[e.entity]
            IN  h.clean =>
                   /\ e.contributor_count = h.count
                   /\ Abs(e.score * h.count - h.sum) < h.count * h.count
                   /\ h.count = 1 => e.score = h.sum

\* Three reports about one entity, of -2.0, 0.4 and 0.4: mean -0.0667.
C26_Witness ==
    /\ coreRun.kind = "board"
    /\ \E i \in DOMAIN coreRun.board.entries :
          LET e == coreRun.board.entries[i]
          IN  /\ coreRun.hist[e.entity].clean
              /\ coreRun.hist[e.entity].count = 3
              /\ coreRun.hist[e.entity].sum = -200000
              /\ e.score = -66666

\* The entries a report pushed off the board.
PushedOff ==
    {x \in Range(coreRun.last.pushed) :
        x.entity \notin EntryEntities(coreRun.board.entries)}

\* C27: after a report the board holds at most max_entries entries, and when
\* a report about a new entity overfills it, the entry removed has the lowest
\* contributor_count of the entries then on the board.
C27_CapacityDropsFewestContributors ==
    (coreRun.kind = "board" /\ coreRun.last.op = "report") =>
        /\ Len(coreRun.board.entries) <= coreRun.board.max_entries
        /\ Len(coreRun.last.pushed) > coreRun.board.max_entries =>
              /\ Cardinality(PushedOff) = 1
              /\ \A x \in PushedOff, y \in Range(coreRun.last.pushed) :
                    x.contributor_count <= y.contributor_count

\* A report about a third entity on a full board whose entries have two
\* reports and one report.
C27_Witness ==
    /\ coreRun.kind = "board"
    /\ coreRun.last.op = "report"
    /\ Len(coreRun.last.pushed) = coreRun.board.max_entries + 1
    /\ \E y \in Range(coreRun.last.pushed) : y.contributor_count = 2
    /\ Len(coreRun.board.entries) = coreRun.board.max_entries

\* C28: a decay at a positive rate leaves every entry last updated before t,
\* if it stays on the board, with the same sign and a strictly smaller
\* magnitude, its score multiplied by exp(-rate * days); no entry with
\* |score| <= 0.05 stays on the board.
C28_DecayTowardNeutral ==
    (coreRun.kind = "board" /\ coreRun.last.op = "decay" /\ coreRun.last.rate > 0) =>
        /\ \A i \in DOMAIN coreRun.board.entries :
              Abs(coreRun.board.entries[i].score) > 50000
        /\ \A i \in DOMAIN coreRun.board.entries :
              \E j \in DOMAIN coreRun.last.before :
                 LET e == coreRun.board.entries[i]
                     b == coreRun.last.before[j]
                     x == (coreRun.last.rate
                             * DeltaDaysMilli(coreRun.last.t, b.last_updated)) \div 1000
                 IN  /\ b.entity = e.entity
                     /\ b.last_updated < coreRun.last.t =>
                           /\ (e.score > 0) = (b.score > 0)
                           /\ Abs(e.score) < Abs(b.score)
                           /\ Abs(e.score) = MulMicro(Abs(b.score), ExpNegMicro(x))
        /\ \A j \in DOMAIN coreRun.last.before :
              \/ coreRun.last.before[j].entity \in EntryEntities(coreRun.board.entries)
              \/ ~retained(DecayedEntry(coreRun.last.before[j], coreRun.last.rate,
                                        coreRun.last.t))

\* A decay forty days on that shrinks one entry and removes another.
C28_Witness ==
    /\ coreRun.kind = "board"
    /\ coreRun.last.op = "decay"
    /\ coreRun.last.rate > 0
    /\ Len(coreRun.last.before) = 2
    /\ Len(coreRun.board.entries) = 1
    /\ coreRun.board.entries[1].last_updated < coreRun.last.t

\* The deeds a record_deed call dropped.
DroppedDeeds ==
    {x \in Range(coreRun.last.pushed) : x \notin Range(coreRun.board.notable_deeds)}

\* C29: the board holds at most max_deeds deeds, and on overflow the deed
\* dropped has the smallest |valence| of the deeds held and the new one.
C29_DeedsKeepHighestImpact ==
    coreRun.kind = "deeds" =>
        /\ Len(coreRun.board.notable_deeds) <= coreRun.board.max_deeds
        /\ Len(coreRun.last.pushed) > coreRun.board.max_deeds =>
              /\ Cardinality(DroppedDeeds) = 1
              /\ \A x \in DroppedDeeds, y \in Range(coreRun.last.pushed) :
                    Abs(x.valence) <= Abs(y.valence)

\* A third deed of high impact pushes an earlier, weaker one off a full board.
C29_Witness ==
    /\ coreRun.kind = "deeds"
    /\ Len(coreRun.last.pushed) = coreRun.board.max_deeds + 1
    /\ \E x \in DroppedDeeds : x.timestamp < coreRun.recorded
    /\ Len(coreRun.board.notable_deeds) = coreRun.board.max_deeds

(***************************************************************************)
(* Properties of the memory values                                         *)
(***************************************************************************)
\* C30: after construction and after every mutating method, whatever the
\* arguments, episodic valence is in [-1, 1], importance and strength in
\* [0, 1], social trust_in_source, emotional intensity, semantic confidence
\* and procedural proficiency in [0, 1].
C30_ScalarsInRange ==
    coreRun.kind = "scalars" =>
        LET m == coreRun.memory.m
            variant == coreRun.memory.variant
        IN  /\ variant = "Episodic" =>
                  /\ m.emotional_valence \in -100..100
                  /\ m.importance \in 0..100
                  /\ m.strength \in 0..100
            /\ variant = "Social" => m.trust_in_source \in 0..100
            /\ variant = "Emotional" => m.intensity \in 0..100
            /\ variant = "Semantic" => m.confidence \in 0..100
            /\ variant = "Procedural" => m.proficiency \in 0..1000000

(***************************************************************************)
(* Properties of behaviour                                                 *)
(***************************************************************************)
\* The bank of the run holds nothing that bears on its target.
NothingKnown ==
    /\ \A i \in DOMAIN coreRun.bank.episodic :
          coreRun.target \notin Range(coreRun.bank.episodic[i].participants)
    /\ \A i \in DOMAIN coreRun.bank.emotional :
          coreRun.bank.emotional[i].target # coreRun.target
    /\ \A i \in DOMAIN coreRun.bank.social :
          ~(coreRun.bank.social[i].about = coreRun.target
               /\ coreRun.bank.social[i].believed)

\* C31: for a bank with no episodic, emotional or believed social memory about
\* the target, the disposition is sentiment 0, confidence 0, basis Unknown,
\* the greeting Neutral and the price modifier 1.0.
C31_MissingMemoryIsNeutral ==
    (coreRun.kind = "disposition" /\ coreRun.called /\ NothingKnown) =>
        /\ coreRun.disposition.sentiment = 0
        /\ coreRun.disposition.confidence = 0
        /\ coreRun.disposition.basis.kind = "Unknown"
        /\ coreRun.greeting = "Neutral"
        /\ coreRun.price = 1000000

\* A bank that knows another entity, and holds a disbelieved claim about the
\* target, has been asked about the target.
C31_Witness ==
    /\ coreRun.kind = "disposition"
    /\ coreRun.called
    /\ NothingKnown
    /\ coreRun.bank.episodic # <<>>
    /\ \E i \in DOMAIN coreRun.bank.social :
          coreRun.bank.social[i].about = coreRun.target
    /\ coreRun.disposition = UnknownDisposition

C33_InjectionRateLimit ==
    coreRun.kind = "inject" =>
        /\ \A player \in InjectPlayers :
              existing_from(coreRun.bank.injected, player)
                  <= InjectionConfig_default.max_per_npc_per_player
        /\ (/\ coreRun.calls > 0
            /\ existing_from(coreRun.before.injected, coreRun.player)
                  >= InjectionConfig_default.max_per_npc_per_player)
           => /\ coreRun.result = "Rejected"
              /\ coreRun.bank = coreRun.before

\* A player at the limit made one more call.
C33_Witness ==
    /\ coreRun.kind = "inject"
    /\ coreRun.calls > 0
    /\ existing_from(coreRun.before.injected, coreRun.player)
          = InjectionConfig_default.max_per_npc_per_player
    /\ coreRun.result = "Rejected"

(***************************************************************************)
(* Properties of persistence                                               *)
(***************************************************************************)
\* What delete_bank, list_entities and entity_count owe their caller.
DeleteAndListExact ==
    /\ coreRun.op = "delete" =>
          /\ coreRun.deleted = (coreRun.saved_before[coreRun.entity] # <<>>)
          /\ \A other \in Entities \ {coreRun.entity} :
                load_bank(coreRun.rows, other) = load_bank(coreRun.rows_before, other)
          /\ load_bank(coreRun.rows, coreRun.entity) = <<>>
    /\ coreRun.op = "list" =>
          /\ coreRun.listed = {entity_id \in Entities : coreRun.saved[entity_id] # <<>>}
          /\ coreRun.count = Cardinality(coreRun.listed)

\* C34 as stated: load_bank(id) returns the bank most recently saved for id
\* if it has not been deleted since and None otherwise; delete_bank(id) is
\* true exactly when a bank was stored and touches no other entity;
\* entity_count and list_entities report exactly the stored entities.
C34_LoadReturnsSavedBank ==
    coreRun.kind = "persist" =>
        /\ coreRun.op = "load" => coreRun.loaded = coreRun.saved[coreRun.entity]
        /\ DeleteAndListExact

\* The saved bank as it comes back: the embedding cache of its episodic and
\* semantic memories empty.
WithoutEmbeddings(bank) ==
    [bank EXCEPT !.episodic = [i \in DOMAIN @ |-> [@[i] EXCEPT !.embedding = <<>>]],
                 !.semantic = [i \in DOMAIN @ |-> [@[i] EXCEPT !.embedding = <<>>]]]

\* C34, amended: load_bank(id) returns the bank most recently saved for id,
\* every field kept but the embedding of episodic and semantic memories,
\* which comes back as None; None if never saved or deleted since; the
\* delete, list and count parts as stated.
C34_LoadReturnsSavedBankSansEmbeddings ==
    coreRun.kind = "persist" =>
        /\ coreRun.op = "load" =>
              coreRun.loaded =
                  [i \in DOMAIN coreRun.saved[coreRun.entity] |->
                      WithoutEmbeddings(coreRun.saved[coreRun.entity][i])]
        /\ DeleteAndListExact

\* A bank saved over an earlier one, its episodic memory carrying an
\* embedding, is loaded and comes back without it.
C34_Witness ==
    /\ coreRun.kind = "persist"
    /\ coreRun.op = "load"
    /\ coreRun.calls >= 3
    /\ coreRun.loaded # <<>>
    /\ coreRun.loaded[1].episodic # <<>>
    /\ coreRun.loaded # coreRun.saved[coreRun.entity]

(***************************************************************************)
(* Properties of observation                                               *)
(***************************************************************************)
\* The last observe call appended `episodic` memories and `emotional` ones to
\* the observer's bank and touched nothing else.
ObserveAppended(episodic, emotional) ==
    LET before == BankOf(coreRun.before, coreRun.observer)
        after == BankOf(coreRun.banks, coreRun.observer)
    IN  /\ Len(after.episodic) = Len(before.episodic) + episodic
        /\ SubSeq(after.episodic, 1, Len(before.episodic)) = before.episodic
        /\ Len(after.emotional) = Len(before.emotional) + emotional
        /\ SubSeq(after.emotional, 1, Len(before.emotional)) = before.emotional
        /\ \A v \in Variants \ {"episodic", "emotional"} :
              VariantSeq(after, v) = VariantSeq(before, v)
        /\ \A other \in Entities \ {coreRun.observer} :
              BankOf(coreRun.banks, other) = BankOf(coreRun.before, other)

\* C35 as stated: each observe call appends exactly one episodic memory, and
\* one emotional memory if and only if the event's |valence| > 0.4; no other
\* variant sequence is touched.
C35_EmotionalIffStrongValence ==
    (coreRun.kind = "observe" /\ coreRun.calls > 0) =>
        ObserveAppended(1, IF Abs(coreRun.event[1].emotional_valence) > 40
                           THEN 1 ELSE 0)

\* C35, amended: each observe call appends exactly one episodic memory, and
\* one emotional memory if and only if the event's |valence| > 0.4 and the
\* event has a participant other than the observer; nothing else is touched.
C35_EmotionalIffStrongValenceAndTarget ==
    (coreRun.kind = "observe" /\ coreRun.calls > 0) =>
        ObserveAppended(1,
            IF /\ Abs(coreRun.event[1].emotional_valence) > 40
               /\ \E i \in DOMAIN coreRun.event[1].participants :
                     coreRun.event[1].participants[i] # coreRun.observer
            THEN 1 ELSE 0)

\* A strongly felt event whose only participant is the observer was observed
\* after one that did leave an emotional memory.
C35_Witness ==
    /\ coreRun.kind = "observe"
    /\ coreRun.calls = 2
    /\ Abs(coreRun.event[1].emotional_valence) > 40
    /\ coreRun.event[1].participants = <<coreRun.observer>>
    /\ Len(BankOf(coreRun.banks, coreRun.observer).emotional) = 1
    /\ Len(BankOf(coreRun.banks, coreRun.observer).episodic) = 2

(***************************************************************************)
(* Properties of gossip selection                                          *)
(***************************************************************************)
\* C36: every claim propagate_gossip offers the listener is a speaker memory
\* that passes the gossip-selection filter: its subject is not the listener,
\* the speaker believes it, and its propagation_depth is below 3.
C36_SharedGossipPassesSelection ==
    (propRun.kind = "gossip" /\ propRun.speaker # None) =>
        \A m \in Range(BankOf(banks, propRun.speaker).social) :
            m.id \in propRun.offered => select_gossip_filter(m, propRun.listener)

\* C37: every social memory created by an Accepted propagation is stored
\* with believed = true; Accepted never yields a memory the receiver is
\* recorded as disbelieving.
C37_AcceptedIsBelieved ==
    (propRun.kind = "chain" /\ propRun.calls > 0) =>
        (propRun.result.kind = "Accepted" => propRun.result.new_memory.believed)

(***************************************************************************)
(* Properties of the queue's counters                                      *)
(***************************************************************************)
\* C38: under any interleaving of enqueue, dequeue and purge_expired through
\* any clones, total_enqueued equals the current depth plus the requests
\* dequeue has returned plus total_expired, and total_dropped equals the
\* number of enqueue calls that returned None.
C38_CountersConserved ==
    queueRun.kind = "queue" =>
        /\ queueRun.inner.total_enqueued =
              Len(queueRun.inner.heap) + queueRun.returned
                  + queueRun.inner.total_expired
        /\ queueRun.inner.total_dropped = queueRun.refused

\* Through two handles a request was refused, one was returned, one expired
\* and one is still queued.
C38_Witness ==
    /\ queueRun.kind = "queue"
    /\ queueRun.handles = QueueHandles
    /\ queueRun.refused >= 1
    /\ queueRun.returned >= 1
    /\ queueRun.inner.total_expired >= 1
    /\ Len(queueRun.inner.heap) >= 1

(***************************************************************************)
(* Properties of repeated reputation decay                                 *)
(***************************************************************************)
\* C39: with no report in between, decay_reputations at t1 and then at
\* t2 >= t1 leaves the scores a single decay_reputations at t2 would leave;
\* in particular a second pass at the same timestamp changes nothing.
C39_DecayDoesNotCompound ==
    [][(/\ coreRun.kind = "board"
        /\ coreRun.last.op = "decay"
        /\ coreRun'.last.op = "decay")
       => coreRun'.board.entries =
              decay_reputations([coreRun.board EXCEPT !.entries = coreRun.last.before],
                                coreRun'.last.rate, coreRun'.last.t).entries]_vars

(***************************************************************************)
(* Properties of eviction passes                                           *)
(***************************************************************************)
\* How often x occurs in seq.
Occurrences(seq, x) == Cardinality({i \in DOMAIN seq : seq[i] = x})

\* The outputs of the finished pass, one after the other.
EvictOutputs ==
    IF evictRun.kind = "episodic"
    THEN evictRun.result.retained \o evictRun.result.to_cold_storage
             \o evictRun.result.to_archive
    ELSE evictRun.result.retained \o evictRun.result.evicted

\* C40: an eviction pass neither loses nor duplicates memories: every input
\* of evict_episodic_memories appears, unchanged, in exactly one of retained,
\* to_cold_storage and to_archive, and every input of evict_social_memories
\* in exactly one of retained and evicted; the outputs hold nothing else.
C40_EvictionPartitionsInput ==
    (evictRun.kind \in {"episodic", "social"} /\ evictRun.done) =>
        /\ Len(EvictOutputs) = Len(evictRun.input)
        /\ \A i \in DOMAIN evictRun.input :
              Occurrences(EvictOutputs, evictRun.input[i]) = 1

\* An episodic pass with a memory in each output.
C40_Witness ==
    /\ evictRun.kind = "episodic"
    /\ evictRun.done
    /\ evictRun.result.retained # <<>>
    /\ evictRun.result.to_cold_storage # <<>>
    /\ evictRun.result.to_archive # <<>>

\* A social pass that spills a memory over capacity beside an archived one.
C40_SocialWitness ==
    /\ evictRun.kind = "social"
    /\ evictRun.done
    /\ evictRun.result.retained # <<>>
    /\ Len(evictRun.result.evicted) = 2
    /\ \E i \in DOMAIN evictRun.result.evicted :
          classify_ring(evictRun.result.evicted[i].received_at, evictRun.current_tick,
                        evictRun.ticks_per_hour, evictRun.config) # "Archive"
    /\ \E i \in DOMAIN evictRun.result.evicted :
          classify_ring(evictRun.result.evicted[i].received_at, evictRun.current_tick,
                        evictRun.ticks_per_hour, evictRun.config) = "Archive"

====
